---------------------------- MODULE Spec2Model ----------------------------
(***************************************************************************)
(* A model of the maze training site: the binary-heap PriorityQueue, the   *)
(* Maze constructor (dimension check, initBoard, generateMaze), the        *)
(* MazePath that tracks a route through a maze, the Queue and the solver   *)
(* (drawSolution, getSolution).                                            *)
(*                                                                         *)
(* JavaScript arrays are modelled as sequences (array index i is sequence  *)
(* index i + 1).  A read outside an array yields Undefined, as in          *)
(* JavaScript, and a method call on Undefined is a thrown TypeError.       *)
(***************************************************************************)
EXTENDS Integers, Sequences, FiniteSets, TLC

VARIABLES
    pq,             \* the PriorityQueue object: [heap, _size, neg1]
    removed,        \* priorities returned by removeMin since the last insert
    fresh,          \* only inserts followed by removeMins since construction
    lastCall,       \* the last PriorityQueue call and how it ended
    rows,           \* Maze.rows
    columns,        \* Maze.columns
    board,          \* Maze.board: cell -> open?
    weights,        \* generateMaze's weights table
    visited,        \* generateMaze's visited table
    pc,             \* position of the Maze constructor
    ctorError,      \* the error the Maze constructor threw, or "none"
    mazePath,       \* the MazePath object: [path, cellPositions]
    solver,         \* the solver's locals and position (drawSolution or
                    \* getSolution), or SolverIdle
    lastPathCall,   \* the last MazePath call: its argument, the length of
                    \* the path before it, what it returned (FALSE where it
                    \* returns nothing) and whether it threw
    response,       \* the response to GET /generateMaze: whether it is on
                    \* its way or was handled by the page, its body, whether
                    \* it was altered on the way and whether the page's
                    \* handler threw
    fifo,           \* a Queue object and its use: the numbers of push calls
                    \* and of pop calls that returned, the elements pushed
                    \* and not yet popped (oldest first), and the last call
    game            \* the page: isUserMouseDown, whether gameInstance is
                    \* set, its isMazeSolved, the last event handled and
                    \* whether it threw, the cell under the last mousemove
                    \* with the length of the path and the position of
                    \* that cell on the path before it,
                    \* whether solveMaze was called on the game and whether
                    \* the game told the user that the maze is solved

pqVars == <<pq, removed, fresh, lastCall>>
mazeVars == <<rows, columns, board, weights, visited, pc, ctorError>>
pathVars == <<mazePath, lastPathCall>>
solverVars == <<solver>>
gameVars == <<game>>
fetchVars == <<response>>
queueVars == <<fifo>>
vars == <<pq, removed, fresh, lastCall, rows, columns, board, weights,
          visited, pc, ctorError, mazePath, lastPathCall, solver, game,
          response, fifo>>

---------------------------------------------------------------------------
(* Bounds of the model. *)

\* the priority queue specification holds at most this many elements
MaxHeap == 4
\* priorities inserted by the priority queue specification are 1..MaxPriority
MaxPriority == 3
\* the mazes built have 1..MaxRows rows and 1..MaxColumns columns
MaxRows == 3
MaxColumns == 3
\* the mazes received as a payload have at most this many cells
MaxCells == 9
MaxPushes == 6
MaxWeightCells == 6
MaxGameCells == 6
MaxTreeCells == 15
MaxQueueValue == 2

---------------------------------------------------------------------------
(* PriorityQueue (binary min-heap over a JavaScript array). *)

\* JavaScript's undefined: the value of a missing array element
Undefined == <<>>

\* new PriorityQueueElement(data, priority)
PriorityQueueElement(data, priority) == <<data, priority>>

getData(e) == e[1]

getPriority(e) == e[2]

\* new PriorityQueue(): an empty heap of size 0.  neg1 is the array's
\* property "-1", which swap(heap, 0, -1) reads and writes.
EmptyPQ == [heap |-> <<>>, _size |-> 0, neg1 |-> Undefined]

\* this.heap[i]
HeapGet(q, i) ==
    IF i = -1 THEN q.neg1
    ELSE IF 0 <= i /\ i < Len(q.heap) THEN q.heap[i + 1]
    ELSE Undefined

\* this.heap[i] = v: an assignment at index length grows the array
HeapSet(q, i, v) ==
    IF i = -1 THEN [q EXCEPT !.neg1 = v]
    ELSE IF i < Len(q.heap) THEN [q EXCEPT !.heap[i + 1] = v]
    ELSE [q EXCEPT !.heap = Append(q.heap, v)]

\* swap(arr, index1, index2)
swap(q, index1, index2) ==
    LET temp == HeapGet(q, index1)
        q1 == HeapSet(q, index1, HeapGet(q, index2))
    IN  HeapSet(q1, index2, temp)

\* Math.floor((index - 1) / 2)
parent(index) == (index - 1) \div 2

leftChild(index) == 2 * index + 1

rightChild(index) == 2 * index + 2

\* heapifyUp(index): the queue afterwards and whether a TypeError was thrown
\* (getPriority called on undefined).  (Here and below a value is bound by a
\* set constructor over a singleton where that makes TLC evaluate it once.)
RECURSIVE heapifyUp(_, _)
heapifyUp(queue, index) ==
    CHOOSE result \in
        {IF index = 0 THEN [q |-> q, thrown |-> FALSE]
         ELSE LET p == parent(index)
                  a == HeapGet(q, index)
                  b == HeapGet(q, p)
              IN  IF a = Undefined \/ b = Undefined
                     THEN [q |-> q, thrown |-> TRUE]
                  ELSE IF getPriority(a) < getPriority(b)
                     THEN heapifyUp(swap(q, index, p), p)
                  ELSE [q |-> q, thrown |-> FALSE] :
         q \in {queue}} : TRUE

\* insert(element, priority)
insert(q, element, priority) ==
    CHOOSE result \in
        {heapifyUp(pushed, pushed._size - 1) :
         pushed \in {[q EXCEPT
                         !.heap = Append(q.heap,
                                         PriorityQueueElement(element, priority)),
                         !._size = q._size + 1]}} : TRUE

\* removeMin returning the root without taking it out of the heap
removeMinKeep(q) ==
    [q |-> q, ret |-> HeapGet(q, 0), thrown |-> HeapGet(q, 0) = Undefined]

\* removeMin(): swaps the first and the last slot, shrinks and pops; the
\* root is not sifted down.  ret is the popped element, Undefined when the
\* call threw (getData called on undefined).
removeMin(q) ==
    CHOOSE result \in
        {[q |-> [swapped EXCEPT
                    !._size = q._size - 1,
                    !.heap = SubSeq(swapped.heap, 1, Len(swapped.heap) - 1)],
          ret |-> swapped.heap[Len(swapped.heap)],
          thrown |-> swapped.heap[Len(swapped.heap)] = Undefined] :
         swapped \in {swap(q, 0, q._size - 1)}} : TRUE

\* size()
size(q) == q._size

---------------------------------------------------------------------------
(* Maze: the constructor's dimension check, initBoard and generateMaze.    *)
(* A cell is the pair <<row, column>> of its coordinates.                  *)

\* the largest maze size the constructor accepts, 2^31 - 1
MaxMazeSize == 2147483647

Cells(rws, cls) == (0..(rws - 1)) \X (0..(cls - 1))

getRow(cell) == cell[1]

getColumn(cell) == cell[2]

\* the check with the size compared by >= instead of >
DimensionErrorStrict(rws, cls) ==
    IF rws = 0 \/ cls = 0 THEN "One of rows and columns is 0."
    ELSE IF rws >= MaxMazeSize \div cls THEN "Maze size is too large."
    ELSE "none"

\* The constructor's check of its arguments: the error it throws, or "none".
\* rows * columns === 0 holds exactly when one factor is 0 (the product of
\* two non-zero integers below 2^31 in magnitude is a non-zero double), and
\* Math.floor(2147483647 / columns) is the floored integer quotient (the
\* double quotient of integers below 2^53 never rounds across an integer).
DimensionError(rws, cls) ==
    IF rws = 0 \/ cls = 0 THEN "One of rows and columns is 0."
    ELSE IF rws > MaxMazeSize \div cls THEN "Maze size is too large."
    ELSE "none"

\* initBoard with the exception for the last row forgotten
initBoardNoLastRow(rws, cls) ==
    [cell \in Cells(rws, cls) |->
        IF getRow(cell) % 2 = 0
            THEN IF getColumn(cell) % 2 = 0 \/ getColumn(cell) = cls - 1
                    THEN TRUE
                    ELSE FALSE
            ELSE FALSE]

\* initBoard(): every cell open, except the cells of odd rows other than the
\* last and of odd columns other than the last
initBoard(rws, cls) ==
    [cell \in Cells(rws, cls) |->
        IF getRow(cell) % 2 = 0 \/ getRow(cell) = rws - 1
            THEN IF getColumn(cell) % 2 = 0 \/ getColumn(cell) = cls - 1
                    THEN TRUE
                    ELSE FALSE
            ELSE FALSE]

\* neighbours with the lower and right bound tested with < instead of <=
neighboursShortBound(rws, cls, cell) ==
    LET row == getRow(cell)
        column == getColumn(cell)
        up == IF 0 <= row - 1 /\ row - 1 < rws - 1
                 THEN << <<row - 1, column>> >> ELSE <<>>
        left == IF 0 <= column - 1 /\ column - 1 < cls - 1
                   THEN << <<row, column - 1>> >> ELSE <<>>
        down == IF 0 <= row + 1 /\ row + 1 < rws - 1
                   THEN << <<row + 1, column>> >> ELSE <<>>
        right == IF 0 <= column + 1 /\ column + 1 < cls - 1
                    THEN << <<row, column + 1>> >> ELSE <<>>
    IN  up \o left \o down \o right

\* neighbours(cell): above, left, below, right, those inside the board
neighbours(rws, cls, cell) ==
    LET row == getRow(cell)
        column == getColumn(cell)
        up == IF 0 <= row - 1 /\ row - 1 <= rws - 1
                 THEN << <<row - 1, column>> >> ELSE <<>>
        left == IF 0 <= column - 1 /\ column - 1 <= cls - 1
                   THEN << <<row, column - 1>> >> ELSE <<>>
        down == IF 0 <= row + 1 /\ row + 1 <= rws - 1
                   THEN << <<row + 1, column>> >> ELSE <<>>
        right == IF 0 <= column + 1 /\ column + 1 <= cls - 1
                    THEN << <<row, column + 1>> >> ELSE <<>>
    IN  up \o left \o down \o right

\* the swap that copies weights[randRow][randColumn] and does not write temp
\* back
swapEntriesNoWriteBack(table, i, rand) ==
    [table EXCEPT ![i + 1] = table[rand + 1]]

\* generateWeights(): the Fisher-Yates shuffle of the table whose entry at
\* linear index i is i; draws[i + 1] is the random number drawn at step i
\* (0 <= draws[i + 1] <= i).  The table is kept by linear index.  (A value
\* is bound by \E or by a set constructor over a singleton where that makes
\* TLC evaluate it once.)
swapEntries(table, i, rand) ==
    [table EXCEPT ![i + 1] = table[rand + 1], ![rand + 1] = table[i + 1]]

RECURSIVE shuffleFrom(_, _, _)
shuffleFrom(table, draws, i) ==
    IF i < 0 THEN table
    ELSE CHOOSE result \in
            {shuffleFrom(swapped, draws, i - 1) :
                swapped \in {swapEntries(table, i, draws[i + 1])}} : TRUE

generateWeights(rws, cls, draws) ==
    LET identity == [k \in 1..(rws * cls) |-> k - 1]
    IN  CHOOSE w \in
            {[cell \in Cells(rws, cls) |->
                 shuffled[getRow(cell) * cls + getColumn(cell) + 1]] :
             shuffled \in {shuffleFrom(identity, draws, rws * cls - 1)}} : TRUE

\* updatePQ(cell, pq, weights): inserts the closed neighbours of cell
RECURSIVE insertClosed(_, _, _, _)
insertClosed(cells, q, b, w) ==
    IF cells = <<>> THEN q
    ELSE CHOOSE result \in
            {insertClosed(Tail(cells), next, b, w) :
             next \in {IF ~b[Head(cells)]
                          THEN insert(q, Head(cells), w[Head(cells)]).q
                          ELSE q}} : TRUE

updatePQ(cell, q, b, w) ==
    insertClosed(neighbours(rows, columns, cell), q, b, w)

\* the first neighbour of wall that is open, visited or not, or Undefined
RECURSIVE firstOpen(_, _, _)
firstOpen(cells, b, v) ==
    IF cells = <<>> THEN Undefined
    ELSE IF b[Head(cells)] THEN Head(cells)
    ELSE firstOpen(Tail(cells), b, v)

\* the first neighbour of wall that is unvisited and open, or Undefined
RECURSIVE firstUnvisitedOpen(_, _, _)
firstUnvisitedOpen(cells, b, v) ==
    IF cells = <<>> THEN Undefined
    ELSE IF ~v[Head(cells)] /\ b[Head(cells)] THEN Head(cells)
    ELSE firstUnvisitedOpen(Tail(cells), b, v)

---------------------------------------------------------------------------
(* The Maze part of the state while only the priority queue is exercised. *)

NoTable == <<>>

MazeIdle ==
    /\ rows = 0
    /\ columns = 0
    /\ board = NoTable
    /\ weights = NoTable
    /\ visited = NoTable
    /\ pc = "idle"
    /\ ctorError = "none"

(* The MazePath part of the state while no MazePath has been constructed.  *)
(* A Cell object is modelled by the maze it belongs to, its coordinates    *)
(* and its open flag; Null is JavaScript's null.                           *)

Null == [maze |-> "none", pos |-> <<0, 0>>, open |-> FALSE]

\* no solver call in progress
SolverIdle == [pc |-> "idle"]

NoPath == [path |-> <<>>, cellPositions |-> NoTable]

NoPathCall ==
    [op |-> "none", cell |-> Null, lengthBefore |-> 0, ret |-> FALSE,
     thrown |-> FALSE]

\* a Queue that was constructed and not used
NoQueueUse ==
    [q |-> [_arr |-> <<>>, entry |-> 0, exit |-> 0],
     pushes |-> 0, pops |-> 0, pending |-> <<>>,
     last |-> [op |-> "none", ret |-> 0, expected |-> 0, thrown |-> FALSE]]

\* no request was made
NoResponse ==
    [state |-> "none",
     body |-> [rows |-> <<>>, columns |-> <<>>, board |-> <<>>],
     altered |-> FALSE, thrown |-> FALSE]

\* the page after its script has run: no game yet, the mouse button up
NoGame ==
    [instance |-> FALSE, listening |-> FALSE, isMazeSolved |-> FALSE,
     isUserMouseDown |-> FALSE,
     lastEvent |-> "none", lastCell |-> Null, lengthBefore |-> 0,
     positionBefore |-> -1,
     solveMazeRan |-> FALSE,
     completedByUser |-> FALSE, thrown |-> FALSE]

PathIdle ==
    /\ mazePath = NoPath
    /\ lastPathCall = NoPathCall
    /\ solver = SolverIdle
    /\ game = NoGame
    /\ response = NoResponse
    /\ fifo = NoQueueUse

---------------------------------------------------------------------------
(* Specification of the priority queue on its own: a client that creates   *)
(* queues, inserts and removes.                                            *)

PQData == {"A", "B"}

NoCall == [op |-> "new", sizeBefore |-> 0, thrown |-> FALSE]

InitPQ ==
    /\ pq = EmptyPQ
    /\ removed = <<>>
    /\ fresh = TRUE
    /\ lastCall = NoCall
    /\ MazeIdle
    /\ PathIdle

\* new PriorityQueue()
PQNew ==
    /\ pq' = EmptyPQ
    /\ removed' = <<>>
    /\ fresh' = TRUE
    /\ lastCall' = NoCall
    /\ UNCHANGED mazeVars
    /\ UNCHANGED pathVars
    /\ UNCHANGED solverVars
    /\ UNCHANGED gameVars
    /\ UNCHANGED fetchVars
    /\ UNCHANGED queueVars

\* pq.insert(d, p)
PQInsert ==
    /\ Len(pq.heap) < MaxHeap
    /\ \E d \in PQData, p \in 1..MaxPriority :
          \E r \in {insert(pq, d, p)} :
              /\ pq' = r.q
              /\ lastCall' = [op |-> "insert", sizeBefore |-> size(pq),
                              thrown |-> r.thrown]
    /\ fresh' = (fresh /\ removed = <<>> /\ ~lastCall.thrown)
    /\ removed' = <<>>
    /\ UNCHANGED mazeVars
    /\ UNCHANGED pathVars
    /\ UNCHANGED solverVars
    /\ UNCHANGED gameVars
    /\ UNCHANGED fetchVars
    /\ UNCHANGED queueVars

\* pq.removeMin(); the guard keeps _size at -1 or above
PQRemoveMin ==
    /\ size(pq) >= 0
    /\ \E r \in {removeMin(pq)} :
          /\ pq' = r.q
          /\ lastCall' = [op |-> "removeMin", sizeBefore |-> size(pq),
                          thrown |-> r.thrown]
          /\ removed' = IF r.thrown THEN removed
                        ELSE Append(removed, getPriority(r.ret))
          /\ fresh' = (fresh /\ ~r.thrown)
    /\ UNCHANGED mazeVars
    /\ UNCHANGED pathVars
    /\ UNCHANGED solverVars
    /\ UNCHANGED gameVars
    /\ UNCHANGED fetchVars
    /\ UNCHANGED queueVars

NextPQ == PQNew \/ PQInsert \/ PQRemoveMin

SpecPQ == InitPQ /\ [][NextPQ]_vars

NonDecreasing(s) == \A i \in 1..(Len(s) - 1) : s[i] <= s[i + 1]

---------------------------------------------------------------------------
(* Specification of the Maze constructor on small boards: new Maze(rows,   *)
(* columns) checks its arguments, builds the board and carves the maze.    *)

PQIdle ==
    /\ pq = EmptyPQ
    /\ removed = <<>>
    /\ fresh = TRUE
    /\ lastCall = NoCall

LinearIndex(cls, cell) == getRow(cell) * cls + getColumn(cell)

\* The closed cells of the fresh board next to an open one: generateMaze
\* reads the weight of a cell only when updatePQ finds it closed beside a
\* visited open cell.
WallCandidates(rws, cls) ==
    LET b == initBoard(rws, cls)
    IN  {cell \in Cells(rws, cls) :
            /\ ~b[cell]
            /\ \E i \in 1..Len(neighbours(rws, cls, cell)) :
                   b[neighbours(rws, cls, cell)[i]]}

\* The random draws of generateWeights the model enumerates: step i draws
\* among the wall candidates' indices up to i when i is one, and i itself
\* otherwise, so the candidates' weights take every relative order.
AllowedDraws(rws, cls, i) ==
    LET wallIdx == {LinearIndex(cls, cell) : cell \in WallCandidates(rws, cls)}
    IN  IF i \in wallIdx THEN {j \in wallIdx : j <= i} ELSE {i}

RECURSIVE DrawSeqs(_, _, _)
DrawSeqs(rws, cls, k) ==
    IF k = 0 THEN {<<>>}
    ELSE {Append(d, x) : d \in DrawSeqs(rws, cls, k - 1),
                         x \in AllowedDraws(rws, cls, k - 1)}

InitMaze ==
    /\ rows \in 1..MaxRows
    /\ columns \in 1..MaxColumns
    /\ board = NoTable
    /\ weights = NoTable
    /\ visited = NoTable
    /\ pc = "start"
    /\ ctorError = "none"
    /\ PQIdle
    /\ PathIdle

\* constructor, lines 181-185: the check of rows and columns
CheckDimensions ==
    /\ pc = "start"
    /\ ctorError' = DimensionError(rows, columns)
    /\ pc' = IF DimensionError(rows, columns) = "none" THEN "checked"
             ELSE "thrown"
    /\ UNCHANGED <<rows, columns, board, weights, visited>>
    /\ UNCHANGED pqVars
    /\ UNCHANGED pathVars
    /\ UNCHANGED solverVars
    /\ UNCHANGED gameVars
    /\ UNCHANGED fetchVars
    /\ UNCHANGED queueVars

\* this.board = this.initBoard()
InitBoard ==
    /\ pc = "checked"
    /\ board' = initBoard(rows, columns)
    /\ pc' = "built"
    /\ UNCHANGED <<rows, columns, weights, visited, ctorError>>
    /\ UNCHANGED pqVars
    /\ UNCHANGED pathVars
    /\ UNCHANGED solverVars
    /\ UNCHANGED gameVars
    /\ UNCHANGED fetchVars
    /\ UNCHANGED queueVars

\* generateMaze up to its loop: the weights, the queue, the visited table,
\* visited[0][0] = true and updatePQ(this.board[0][0], pq, weights)
GenerateStart ==
    /\ pc = "built"
    /\ \E draws \in DrawSeqs(rows, columns, rows * columns) :
          \E w \in {generateWeights(rows, columns, draws)} :
              /\ weights' = w
              /\ pq' = updatePQ(<<0, 0>>, EmptyPQ, board, w)
    /\ visited' = [cell \in Cells(rows, columns) |-> cell = <<0, 0>>]
    /\ pc' = "loop"
    /\ UNCHANGED <<rows, columns, board, ctorError, removed, fresh, lastCall>>
    /\ UNCHANGED pathVars
    /\ UNCHANGED solverVars
    /\ UNCHANGED gameVars
    /\ UNCHANGED fetchVars
    /\ UNCHANGED queueVars

\* the loop body with wall.setOpen(true) forgotten where nextCell exists
loopBodyNoCarve(wall, q, b, v, w, lucky) ==
    LET nextCell == firstUnvisitedOpen(neighbours(rows, columns, wall), b, v)
    IN  IF nextCell # Undefined
           THEN [board |-> b,
                 visited |-> [v EXCEPT ![wall] = TRUE, ![nextCell] = TRUE],
                 pq |-> updatePQ(nextCell, q, b, w)]
        ELSE IF lucky
           THEN [board |-> [b EXCEPT ![wall] = TRUE],
                 visited |-> [v EXCEPT ![wall] = TRUE],
                 pq |-> q]
        ELSE [board |-> b, visited |-> v, pq |-> q]

\* the loop body with updatePQ called on the wall instead of nextCell
loopBodyUpdatesFromWall(wall, q, b, v, w, lucky) ==
    LET nextCell == firstUnvisitedOpen(neighbours(rows, columns, wall), b, v)
    IN  IF nextCell # Undefined
           THEN LET opened == [b EXCEPT ![wall] = TRUE]
                IN  [board |-> opened,
                     visited |-> [v EXCEPT ![wall] = TRUE, ![nextCell] = TRUE],
                     pq |-> updatePQ(wall, q, opened, w)]
        ELSE IF lucky
           THEN [board |-> [b EXCEPT ![wall] = TRUE],
                 visited |-> [v EXCEPT ![wall] = TRUE],
                 pq |-> q]
        ELSE [board |-> b, visited |-> v, pq |-> q]

\* the loop body with visited[nextCell] left as it is
loopBodyNoVisitNext(wall, q, b, v, w, lucky) ==
    LET nextCell == firstUnvisitedOpen(neighbours(rows, columns, wall), b, v)
    IN  IF nextCell # Undefined
           THEN LET opened == [b EXCEPT ![wall] = TRUE]
                IN  [board |-> opened,
                     visited |-> [v EXCEPT ![wall] = TRUE],
                     pq |-> updatePQ(nextCell, q, opened, w)]
        ELSE IF lucky
           THEN [board |-> [b EXCEPT ![wall] = TRUE],
                 visited |-> [v EXCEPT ![wall] = TRUE],
                 pq |-> q]
        ELSE [board |-> b, visited |-> v, pq |-> q]

\* One iteration of the loop of generateMaze, from the state after
\* pq.removeMin() returned wall; lucky is Math.random() <= 0.03.
loopBody(wall, q, b, v, w, lucky) ==
    LET nextCell == firstUnvisitedOpen(neighbours(rows, columns, wall), b, v)
    IN  IF nextCell # Undefined
           THEN LET opened == [b EXCEPT ![wall] = TRUE]
                IN  [board |-> opened,
                     visited |-> [v EXCEPT ![wall] = TRUE, ![nextCell] = TRUE],
                     pq |-> updatePQ(nextCell, q, opened, w)]
        ELSE IF lucky
           THEN [board |-> [b EXCEPT ![wall] = TRUE],
                 visited |-> [v EXCEPT ![wall] = TRUE],
                 pq |-> q]
        ELSE [board |-> b, visited |-> v, pq |-> q]

GenerateStep ==
    /\ pc = "loop"
    /\ size(pq) # 0
    /\ \E lucky \in BOOLEAN, r \in {removeMin(pq)} :
          \E after \in {loopBody(getData(r.ret), r.q, board, visited,
                                  weights, lucky)} :
              /\ board' = after.board
              /\ visited' = after.visited
              /\ pq' = after.pq
    /\ UNCHANGED <<rows, columns, weights, pc, ctorError, removed, fresh,
                   lastCall>>
    /\ UNCHANGED pathVars
    /\ UNCHANGED solverVars
    /\ UNCHANGED gameVars
    /\ UNCHANGED fetchVars
    /\ UNCHANGED queueVars

\* the loop ends, generateMaze and the constructor return: the weights, the
\* queue and the visited table are dropped
GenerateFinish ==
    /\ pc = "loop"
    /\ size(pq) = 0
    /\ pc' = "done"
    /\ weights' = NoTable
    /\ visited' = NoTable
    /\ pq' = EmptyPQ
    /\ UNCHANGED <<rows, columns, board, ctorError, removed, fresh, lastCall>>
    /\ UNCHANGED pathVars
    /\ UNCHANGED solverVars
    /\ UNCHANGED gameVars
    /\ UNCHANGED fetchVars
    /\ UNCHANGED queueVars

NextMaze ==
    \/ CheckDimensions
    \/ InitBoard
    \/ GenerateStart
    \/ GenerateStep
    \/ GenerateFinish

SpecMaze == InitMaze /\ [][NextMaze]_vars

---------------------------------------------------------------------------
(* Generation in which Math.random() <= 0.03 is false in every iteration   *)
(* of the loop, for every maze of up to MaxTreeCells cells.                *)

InitPlainMaze ==
    /\ rows \in 1..MaxTreeCells
    /\ columns \in 1..MaxTreeCells
    /\ rows * columns <= MaxTreeCells
    /\ board = NoTable
    /\ weights = NoTable
    /\ visited = NoTable
    /\ pc = "start"
    /\ ctorError = "none"
    /\ PQIdle
    /\ PathIdle

\* one iteration of the loop of generateMaze in which the random number is
\* above 0.03
GenerateStepPlain ==
    /\ pc = "loop"
    /\ size(pq) # 0
    /\ \E r \in {removeMin(pq)} :
          \E after \in {loopBody(getData(r.ret), r.q, board, visited,
                                  weights, FALSE)} :
              /\ board' = after.board
              /\ visited' = after.visited
              /\ pq' = after.pq
    /\ UNCHANGED <<rows, columns, weights, pc, ctorError, removed, fresh,
                   lastCall>>
    /\ UNCHANGED pathVars
    /\ UNCHANGED solverVars
    /\ UNCHANGED gameVars
    /\ UNCHANGED fetchVars
    /\ UNCHANGED queueVars

NextPlainMaze ==
    \/ CheckDimensions
    \/ InitBoard
    \/ GenerateStart
    \/ GenerateStepPlain
    \/ GenerateFinish

SpecPlainMaze == InitPlainMaze /\ [][NextPlainMaze]_vars

---------------------------------------------------------------------------
(* Specification of generateWeights on its own: the constructor up to the  *)
(* weights table, on boards of up to MaxWeightCells cells and with every   *)
(* sequence of random draws (Math.floor(Math.random() * (i + 1)) is a      *)
(* number from 0 to i).                                                    *)

RECURSIVE AllDrawSeqs(_)
AllDrawSeqs(k) ==
    IF k = 0 THEN {<<>>}
    ELSE {Append(d, x) : d \in AllDrawSeqs(k - 1), x \in 0..(k - 1)}

InitWeights ==
    /\ rows \in 1..MaxWeightCells
    /\ columns \in 1..MaxWeightCells
    /\ rows * columns <= MaxWeightCells
    /\ board = NoTable
    /\ weights = NoTable
    /\ visited = NoTable
    /\ pc = "start"
    /\ ctorError = "none"
    /\ PQIdle
    /\ PathIdle

\* const weights = generateWeights()
GenerateWeights ==
    /\ pc = "built"
    /\ \E draws \in AllDrawSeqs(rows * columns) :
          weights' = generateWeights(rows, columns, draws)
    /\ pc' = "weights"
    /\ UNCHANGED <<rows, columns, board, visited, ctorError>>
    /\ UNCHANGED pqVars
    /\ UNCHANGED pathVars
    /\ UNCHANGED solverVars
    /\ UNCHANGED gameVars
    /\ UNCHANGED fetchVars
    /\ UNCHANGED queueVars

NextWeights == CheckDimensions \/ InitBoard \/ GenerateWeights

SpecWeights == InitWeights /\ [][NextWeights]_vars

---------------------------------------------------------------------------
(* Specification of the constructor's handling of its arguments, over      *)
(* values around 0 and around the size limit.  For arguments that pass the *)
(* check the board is built only by SpecMaze, on small boards; here the    *)
(* constructor is followed further only for a negative rows, where         *)
(* initBoard and generateWeights run no iteration and generateMaze throws. *)

DimValues ==
    {-2147483647, -2, -1, 0, 1, 2, 3, 46340, 46341, 65536, 1073741823,
     1073741824, 2147483647}

InitDim ==
    /\ rows \in DimValues
    /\ columns \in DimValues
    /\ board = NoTable
    /\ weights = NoTable
    /\ visited = NoTable
    /\ pc = "start"
    /\ ctorError = "none"
    /\ PQIdle
    /\ PathIdle

\* initBoard and generateMaze for rows < 0: the loops over the rows run no
\* iteration; with columns > 0 the shuffle loop runs none either and
\* new Array(this.rows) throws a RangeError (line 392); with columns < 0
\* the shuffle loop reads weights[row][column] of an empty table (line 363)
BuildNegativeRows ==
    /\ pc = "checked"
    /\ rows < 0
    /\ pc' = "thrown"
    /\ ctorError' = IF columns > 0 THEN "RangeError: Invalid array length"
                    ELSE "TypeError"
    /\ UNCHANGED <<rows, columns, board, weights, visited>>
    /\ UNCHANGED pqVars
    /\ UNCHANGED pathVars
    /\ UNCHANGED solverVars
    /\ UNCHANGED gameVars
    /\ UNCHANGED fetchVars
    /\ UNCHANGED queueVars

NextDim == CheckDimensions \/ BuildNegativeRows

SpecDim == InitDim /\ [][NextDim]_vars

---------------------------------------------------------------------------
(* MazePath: an ordered list of cells of one maze, with the table          *)
(* cellPositions giving each cell's index in the list, or -1.              *)

ThisMaze == "this"
OtherMaze == "other"

\* this.board[row][column] of the maze the path travels through
BoardCell(pos) == [maze |-> ThisMaze, pos |-> pos, open |-> board[pos]]

\* cell.isOpen()
isOpen(cell) == cell.open

\* cell.getNeighbours() for a cell of the maze the path travels through
getNeighbours(cell) ==
    LET around == neighbours(rows, columns, cell.pos)
    IN  [i \in 1..Len(around) |-> BoardCell(around[i])]

\* new MazePath(mazeDrawer)
NewMazePath(rws, cls) ==
    [path |-> <<>>, cellPositions |-> [pos \in Cells(rws, cls) |-> -1]]

\* add without the test that the cell is not yet on the path
addNoPositionTest(mp, cell) ==
    IF cell # Null /\ cell.maze = ThisMaze /\ isOpen(cell)
    THEN IF Len(mp.path) = 0
         THEN [path |-> Append(mp.path, cell),
               cellPositions |-> [mp.cellPositions EXCEPT ![cell.pos] = 0]]
         ELSE LET cellNeighbours == getNeighbours(cell)
                  lastCell == mp.path[Len(mp.path)]
              IN  IF \E i \in 1..Len(cellNeighbours) :
                         cellNeighbours[i] = lastCell
                  THEN [path |-> Append(mp.path, cell),
                        cellPositions |->
                            [mp.cellPositions EXCEPT
                                 ![cell.pos] = Len(mp.path)]]
                  ELSE mp
    ELSE mp

\* add without the search for the last cell among the cell's neighbours
addNoNeighbourTest(mp, cell) ==
    IF cell # Null /\ cell.maze = ThisMaze /\ isOpen(cell)
    THEN IF Len(mp.path) = 0
         THEN [path |-> Append(mp.path, cell),
               cellPositions |-> [mp.cellPositions EXCEPT ![cell.pos] = 0]]
         ELSE IF mp.cellPositions[cell.pos] = -1
              THEN [path |-> Append(mp.path, cell),
                    cellPositions |->
                        [mp.cellPositions EXCEPT ![cell.pos] = Len(mp.path)]]
              ELSE mp
    ELSE mp

\* add without the test that the cell is open
addNoOpenTest(mp, cell) ==
    IF cell # Null /\ cell.maze = ThisMaze
    THEN IF Len(mp.path) = 0
         THEN [path |-> Append(mp.path, cell),
               cellPositions |-> [mp.cellPositions EXCEPT ![cell.pos] = 0]]
         ELSE IF mp.cellPositions[cell.pos] = -1
              THEN LET cellNeighbours == getNeighbours(cell)
                       lastCell == mp.path[Len(mp.path)]
                   IN  IF \E i \in 1..Len(cellNeighbours) :
                              cellNeighbours[i] = lastCell
                       THEN [path |-> Append(mp.path, cell),
                             cellPositions |->
                                 [mp.cellPositions EXCEPT
                                      ![cell.pos] = Len(mp.path)]]
                       ELSE mp
              ELSE mp
    ELSE mp

\* add that records the appended cell one position too far
addAtLengthPlusOne(mp, cell) ==
    IF cell # Null /\ cell.maze = ThisMaze /\ isOpen(cell)
    THEN IF Len(mp.path) = 0
         THEN [path |-> Append(mp.path, cell),
               cellPositions |-> [mp.cellPositions EXCEPT ![cell.pos] = 0]]
         ELSE IF mp.cellPositions[cell.pos] = -1
              THEN LET cellNeighbours == getNeighbours(cell)
                       lastCell == mp.path[Len(mp.path)]
                   IN  IF \E i \in 1..Len(cellNeighbours) :
                              cellNeighbours[i] = lastCell
                       THEN [path |-> Append(mp.path, cell),
                             cellPositions |->
                                 [mp.cellPositions EXCEPT
                                      ![cell.pos] = Len(mp.path) + 1]]
                       ELSE mp
              ELSE mp
    ELSE mp

\* add that starts a path only at the top-left cell
addOnlyFromOrigin(mp, cell) ==
    IF cell # Null /\ cell.maze = ThisMaze /\ isOpen(cell)
    THEN IF Len(mp.path) = 0
         THEN IF cell.pos = <<0, 0>>
              THEN [path |-> Append(mp.path, cell),
                    cellPositions |->
                        [mp.cellPositions EXCEPT ![cell.pos] = 0]]
              ELSE mp
         ELSE IF mp.cellPositions[cell.pos] = -1
              THEN LET cellNeighbours == getNeighbours(cell)
                       lastCell == mp.path[Len(mp.path)]
                   IN  IF \E i \in 1..Len(cellNeighbours) :
                              cellNeighbours[i] = lastCell
                       THEN [path |-> Append(mp.path, cell),
                             cellPositions |->
                                 [mp.cellPositions EXCEPT
                                      ![cell.pos] = Len(mp.path)]]
                       ELSE mp
              ELSE mp
    ELSE mp

\* add that closes the cell it appends
addClosesCell(mp, cell) ==
    IF cell # Null /\ cell.maze = ThisMaze /\ isOpen(cell)
    THEN IF Len(mp.path) = 0
         THEN [path |-> Append(mp.path, [cell EXCEPT !.open = FALSE]),
               cellPositions |-> [mp.cellPositions EXCEPT ![cell.pos] = 0]]
         ELSE IF mp.cellPositions[cell.pos] = -1
              THEN LET cellNeighbours == getNeighbours(cell)
                       lastCell == mp.path[Len(mp.path)]
                   IN  IF \E i \in 1..Len(cellNeighbours) :
                              cellNeighbours[i].pos = lastCell.pos
                       THEN [path |-> Append(mp.path,
                                             [cell EXCEPT !.open = FALSE]),
                             cellPositions |->
                                 [mp.cellPositions EXCEPT
                                      ![cell.pos] = Len(mp.path)]]
                       ELSE mp
              ELSE mp
    ELSE mp

\* add(cell): the MazePath after the call
add(mp, cell) ==
    IF cell # Null /\ cell.maze = ThisMaze /\ isOpen(cell)
    THEN IF Len(mp.path) = 0
         THEN [path |-> Append(mp.path, cell),
               cellPositions |-> [mp.cellPositions EXCEPT ![cell.pos] = 0]]
         ELSE IF mp.cellPositions[cell.pos] = -1
              THEN LET cellNeighbours == getNeighbours(cell)
                       lastCell == mp.path[Len(mp.path)]
                   IN  IF \E i \in 1..Len(cellNeighbours) :
                              cellNeighbours[i] = lastCell
                       THEN [path |-> Append(mp.path, cell),
                             cellPositions |->
                                 [mp.cellPositions EXCEPT
                                      ![cell.pos] = Len(mp.path)]]
                       ELSE mp
              ELSE mp
    ELSE mp

\* getPosition without the comparison of the cell's maze
getPositionAnyMaze(mp, cell) ==
    IF cell = Null THEN "TypeError"
    ELSE mp.cellPositions[cell.pos]

\* getPosition(cell); a null argument is a TypeError (cell.getMaze())
getPosition(mp, cell) ==
    IF cell = Null THEN "TypeError"
    ELSE IF cell.maze = ThisMaze THEN mp.cellPositions[cell.pos]
    ELSE -1

\* getCell(position)
getCell(mp, position) ==
    IF 0 <= position /\ position < Len(mp.path)
    THEN mp.path[position + 1]
    ELSE Null

\* remove that leaves cellPositions as it is
removeNoClear(mp, cell) ==
    IF cell # Null /\ cell.maze = ThisMaze
    THEN LET position == mp.cellPositions[cell.pos]
         IN  IF position # -1
             THEN LET cut == IF position <= Len(mp.path)
                             THEN SubSeq(mp.path, 1, position)
                             ELSE mp.path \o
                                  [i \in 1..(position - Len(mp.path)) |->
                                      Null]
                  IN  [mp |-> [path |-> cut,
                               cellPositions |-> mp.cellPositions],
                       thrown |-> (position = 0 \/ position > Len(mp.path))]
             ELSE [mp |-> mp, thrown |-> FALSE]
    ELSE [mp |-> mp, thrown |-> FALSE]

\* remove(cell): the MazePath after the call and whether the call threw.
\* The positions of path[position..] are reset, the array is cut to
\* position elements (path.length = position), and then the new last
\* element is read: it is undefined when the array is left empty, and
\* lastCell.getRow() is a TypeError.
remove(mp, cell) ==
    IF cell # Null /\ cell.maze = ThisMaze
    THEN LET position == mp.cellPositions[cell.pos]
         IN  IF position # -1
             THEN LET cleared ==
                          [pos \in DOMAIN mp.cellPositions |->
                              IF \E i \in (position + 1)..Len(mp.path) :
                                     mp.path[i].pos = pos
                              THEN -1
                              ELSE mp.cellPositions[pos]]
                      cut == IF position <= Len(mp.path)
                             THEN SubSeq(mp.path, 1, position)
                             ELSE mp.path \o
                                  [i \in 1..(position - Len(mp.path)) |->
                                      Null]
                  IN  [mp |-> [path |-> cut, cellPositions |-> cleared],
                       thrown |-> (position = 0 \/ position > Len(mp.path))]
             ELSE [mp |-> mp, thrown |-> FALSE]
    ELSE [mp |-> mp, thrown |-> FALSE]

\* cell.isNeighbour(otherCell)
isNeighbour(cell, otherCell) ==
    IF otherCell.maze = cell.maze
    THEN LET dx == otherCell.pos[2] - cell.pos[2]
             dy == otherCell.pos[1] - cell.pos[1]
         IN  (IF dx < 0 THEN -dx ELSE dx) + (IF dy < 0 THEN -dy ELSE dy) = 1
    ELSE FALSE

\* maze.getCell(row, column) of the maze the path travels through
mazeGetCell(row, column) ==
    IF 0 <= row /\ row < rows /\ 0 <= column /\ column < columns
    THEN BoardCell(<<row, column>>)
    ELSE Null

\* isComplete without the comparison of the last cell with the bottom-right
\* cell
isCompleteAnyLastCell(mp) ==
    IF \E i \in 1..(Len(mp.path) - 1) :
           ~isOpen(mp.path[i]) \/ ~isNeighbour(mp.path[i], mp.path[i + 1])
    THEN [ret |-> FALSE, thrown |-> FALSE]
    ELSE IF Len(mp.path) = 0
         THEN [ret |-> FALSE, thrown |-> TRUE]
         ELSE LET lastCell == mp.path[Len(mp.path)]
              IN  [ret |-> isOpen(lastCell), thrown |-> FALSE]

\* isComplete(): what it returns and whether it threw.  With an empty path
\* the loop runs no iteration, lastCell is undefined and lastCell.isOpen()
\* is a TypeError.
isComplete(mp) ==
    IF \E i \in 1..(Len(mp.path) - 1) :
           ~isOpen(mp.path[i]) \/ ~isNeighbour(mp.path[i], mp.path[i + 1])
    THEN [ret |-> FALSE, thrown |-> FALSE]
    ELSE IF Len(mp.path) = 0
         THEN [ret |-> FALSE, thrown |-> TRUE]
         ELSE LET lastCell == mp.path[Len(mp.path)]
              IN  [ret |-> (isOpen(lastCell) /\
                            lastCell = mazeGetCell(rows - 1, columns - 1)),
                   thrown |-> FALSE]

---------------------------------------------------------------------------
(* Specification of a MazePath over a generated maze: the maze is built as *)
(* in SpecMaze, then a client constructs a MazePath and calls its methods, *)
(* add and remove with null, with the cells of the board and with cells of *)
(* another maze.                                                           *)

\* the cells of another maze that are passed in: its corner cells at (0,0)
\* and (rows-1, columns-1), open or closed (MazePath compares the maze of
\* such a cell before it reads anything else of it)
OtherCells ==
    {[maze |-> OtherMaze, pos |-> pos, open |-> o] :
        pos \in {<<0, 0>>, <<rows - 1, columns - 1>>}, o \in BOOLEAN}

CellArgs ==
    {Null} \cup {BoardCell(pos) : pos \in Cells(rows, columns)} \cup OtherCells

PathNew ==
    /\ pc = "done"
    /\ mazePath' = NewMazePath(rows, columns)
    /\ lastPathCall' = [op |-> "new", cell |-> Null, lengthBefore |-> 0,
                        ret |-> FALSE, thrown |-> FALSE]
    /\ UNCHANGED mazeVars
    /\ UNCHANGED pqVars
    /\ UNCHANGED solverVars
    /\ UNCHANGED gameVars
    /\ UNCHANGED fetchVars
    /\ UNCHANGED queueVars

PathAdd ==
    /\ pc = "done"
    /\ mazePath # NoPath
    /\ \E cell \in CellArgs :
          /\ mazePath' = add(mazePath, cell)
          /\ lastPathCall' = [op |-> "add", cell |-> cell,
                              lengthBefore |-> Len(mazePath.path),
                              ret |-> FALSE, thrown |-> FALSE]
    /\ UNCHANGED mazeVars
    /\ UNCHANGED pqVars
    /\ UNCHANGED solverVars
    /\ UNCHANGED gameVars
    /\ UNCHANGED fetchVars
    /\ UNCHANGED queueVars

PathRemove ==
    /\ pc = "done"
    /\ mazePath # NoPath
    /\ \E cell \in CellArgs :
          \E r \in {remove(mazePath, cell)} :
              /\ mazePath' = r.mp
              /\ lastPathCall' = [op |-> "remove", cell |-> cell,
                                  lengthBefore |-> Len(mazePath.path),
                                  ret |-> FALSE, thrown |-> r.thrown]
    /\ UNCHANGED mazeVars
    /\ UNCHANGED pqVars
    /\ UNCHANGED solverVars
    /\ UNCHANGED gameVars
    /\ UNCHANGED fetchVars
    /\ UNCHANGED queueVars

\* mazePath.isComplete()
PathIsComplete ==
    /\ pc = "done"
    /\ mazePath # NoPath
    /\ \E r \in {isComplete(mazePath)} :
          lastPathCall' = [op |-> "isComplete", cell |-> Null,
                           lengthBefore |-> Len(mazePath.path),
                           ret |-> r.ret, thrown |-> r.thrown]
    /\ UNCHANGED mazePath
    /\ UNCHANGED mazeVars
    /\ UNCHANGED pqVars
    /\ UNCHANGED solverVars
    /\ UNCHANGED gameVars
    /\ UNCHANGED fetchVars
    /\ UNCHANGED queueVars

\* the positions getCell is called with: from below 0 to beyond the end
Positions == (-2)..(Len(mazePath.path) + 1)

\* mazePath.getPosition(cell), for a cell (not null)
PathGetPosition ==
    /\ pc = "done"
    /\ mazePath # NoPath
    /\ \E cell \in CellArgs \ {Null} :
          lastPathCall' = [op |-> "getPosition", cell |-> cell,
                           lengthBefore |-> Len(mazePath.path),
                           ret |-> getPosition(mazePath, cell),
                           thrown |-> FALSE]
    /\ UNCHANGED mazePath
    /\ UNCHANGED mazeVars
    /\ UNCHANGED pqVars
    /\ UNCHANGED solverVars
    /\ UNCHANGED gameVars
    /\ UNCHANGED fetchVars
    /\ UNCHANGED queueVars

\* mazePath.getCell(position); the call is recorded with the position it
\* was given next to the cell it returned
PathGetCell ==
    /\ pc = "done"
    /\ mazePath # NoPath
    /\ \E position \in Positions :
          lastPathCall' = [op |-> "getCell", cell |-> Null,
                           lengthBefore |-> Len(mazePath.path),
                           ret |-> [position |-> position,
                                    cell |-> getCell(mazePath, position)],
                           thrown |-> FALSE]
    /\ UNCHANGED mazePath
    /\ UNCHANGED mazeVars
    /\ UNCHANGED pqVars
    /\ UNCHANGED solverVars
    /\ UNCHANGED gameVars
    /\ UNCHANGED fetchVars
    /\ UNCHANGED queueVars

NextPath ==
    \/ NextMaze
    \/ PathNew
    \/ PathAdd
    \/ PathRemove
    \/ PathIsComplete
    \/ PathGetPosition
    \/ PathGetCell

SpecPath == InitMaze /\ [][NextPath]_vars

---------------------------------------------------------------------------
(* Queue: a first-in first-out queue over a JavaScript array, with the     *)
(* indices entry (next write) and exit (next read).                        *)

\* new Queue()
NewQueue == [_arr |-> <<>>, entry |-> 0, exit |-> 0]

\* arr[i] = v for a JavaScript array: writing past the end grows the array
ArraySet(arr, i, v) ==
    IF i < Len(arr) THEN [arr EXCEPT ![i + 1] = v]
    ELSE arr \o [k \in 1..(i - Len(arr)) |-> Undefined] \o <<v>>

\* queue.size()
queueSize(q) == q.entry - q.exit

\* queue.push(val)
push(q, val) ==
    [q EXCEPT !._arr = ArraySet(q._arr, q.entry, val), !.entry = q.entry + 1]

\* pop that cuts the array and leaves entry as it is
popKeepEntry(q) ==
    IF queueSize(q) = 0
    THEN [q |-> q, ret |-> Null, thrown |-> TRUE]
    ELSE LET exit == q.exit + 1
         IN  [q |-> IF 2 * exit > Len(q._arr)
                    THEN [_arr |-> SubSeq(q._arr, exit + 1, Len(q._arr)),
                          entry |-> q.entry,
                          exit |-> 0]
                    ELSE [q EXCEPT !.exit = exit],
              ret |-> q._arr[q.exit + 1],
              thrown |-> FALSE]

\* queue.pop(): the queue after the call, what it returned and whether it
\* threw; once exit passes half of the array's length the array is cut
pop(q) ==
    IF queueSize(q) = 0
    THEN [q |-> q, ret |-> Null, thrown |-> TRUE]
    ELSE LET exit == q.exit + 1
         IN  [q |-> IF 2 * exit > Len(q._arr)
                    THEN [_arr |-> SubSeq(q._arr, exit + 1, Len(q._arr)),
                          entry |-> q.entry - exit,
                          exit |-> 0]
                    ELSE [q EXCEPT !.exit = exit],
              ret |-> q._arr[q.exit + 1],
              thrown |-> FALSE]

---------------------------------------------------------------------------
(* Specification of a Queue on its own: a client that pushes and pops.     *)

QueueValues == 1..MaxQueueValue

InitQueue ==
    /\ MazeIdle
    /\ PQIdle
    /\ PathIdle

QueuePush ==
    /\ fifo.pushes < MaxPushes
    /\ \E val \in QueueValues :
          fifo' = [q |-> push(fifo.q, val),
                    pushes |-> fifo.pushes + 1,
                    pops |-> fifo.pops,
                    pending |-> Append(fifo.pending, val),
                    last |-> [op |-> "push", ret |-> 0, expected |-> 0,
                              thrown |-> FALSE]]
    /\ UNCHANGED mazeVars
    /\ UNCHANGED pqVars
    /\ UNCHANGED pathVars
    /\ UNCHANGED solverVars
    /\ UNCHANGED gameVars
    /\ UNCHANGED fetchVars

QueuePop ==
    /\ \E r \in {pop(fifo.q)} :
          fifo' =
              IF r.thrown
              THEN [fifo EXCEPT !.q = r.q,
                                 !.last = [op |-> "pop", ret |-> 0,
                                           expected |-> 0, thrown |-> TRUE]]
              ELSE [q |-> r.q,
                    pushes |-> fifo.pushes,
                    pops |-> fifo.pops + 1,
                    pending |-> IF fifo.pending = <<>> THEN <<>>
                                ELSE Tail(fifo.pending),
                    last |-> [op |-> "pop", ret |-> r.ret,
                              expected |-> IF fifo.pending = <<>> THEN 0
                                           ELSE Head(fifo.pending),
                              thrown |-> FALSE]]
    /\ UNCHANGED mazeVars
    /\ UNCHANGED pqVars
    /\ UNCHANGED pathVars
    /\ UNCHANGED solverVars
    /\ UNCHANGED gameVars
    /\ UNCHANGED fetchVars

NextQueue == QueuePush \/ QueuePop

SpecQueue == InitQueue /\ [][NextQueue]_vars

---------------------------------------------------------------------------
(* The solver: a breadth-first search from the top-left cell, a walk back  *)
(* from the bottom-right cell along discoveredFrom, and the cells added to *)
(* a new MazePath in reverse.  drawSolution keeps the cells to explore in  *)
(* a Queue, getSolution in an array; the tables visited and discoveredFrom *)
(* are indexed [column][row] and are kept here by the pair <<x, y>>.       *)

Variants == {"drawSolution", "getSolution"}

\* the index <<x, y>> of a cell in visited and discoveredFrom
XY(cell) == <<cell.pos[2], cell.pos[1]>>

\* the tables' indices: one inner array per column
XYs == (0..(columns - 1)) \X (0..(rows - 1))

\* equals that compares the rows and the open flags only
equalsRowOnly(cell, otherCell) ==
    /\ cell.pos[1] = otherCell.pos[1]
    /\ cell.open = otherCell.open

\* otherCell.equals(cell) of the Cell class that has no maze field
equals(cell, otherCell) ==
    /\ cell.pos[1] = otherCell.pos[1]
    /\ cell.pos[2] = otherCell.pos[2]
    /\ cell.open = otherCell.open

\* toExplore.push(c), on the Queue or on the array
pushTo(variant, toExplore, c) ==
    IF variant = "drawSolution" THEN push(toExplore, c)
    ELSE Append(toExplore, c)

\* toExplore.size() or toExplore.length
sizeOf(variant, toExplore) ==
    IF variant = "drawSolution" THEN queueSize(toExplore)
    ELSE Len(toExplore)

\* toExplore.pop() or toExplore.shift()
popFrom(variant, toExplore) ==
    IF variant = "drawSolution"
    THEN CHOOSE result \in {[q |-> r.q, ret |-> r.ret] : r \in {pop(toExplore)}} :
             TRUE
    ELSE [q |-> Tail(toExplore), ret |-> Head(toExplore)]

\* the loop over the neighbours of curr: an open neighbour not yet visited
\* is marked, remembers curr and is pushed
RECURSIVE visitNeighbours(_, _, _)
visitNeighbours(cs, curr, s) ==
    IF cs = <<>> THEN s
    ELSE CHOOSE result \in
             {visitNeighbours(Tail(cs), curr, next) :
                 next \in
                     {IF ~s.visited[XY(Head(cs))] /\ isOpen(Head(cs))
                      THEN [s EXCEPT
                                !.discoveredFrom[XY(Head(cs))] = curr,
                                !.visited[XY(Head(cs))] = TRUE,
                                !.toExplore =
                                    pushTo(s.variant, s.toExplore, Head(cs))]
                      ELSE s}} :
             TRUE

\* the locals at the start of the search
solverStart(variant) ==
    [pc |-> "bfs",
     variant |-> variant,
     visited |-> [xy \in XYs |-> xy = <<0, 0>>],
     discoveredFrom |->
         [xy \in XYs |->
             IF variant = "getSolution" /\ xy = <<0, 0>>
             THEN mazeGetCell(0, 0)
             ELSE Null],
     toExplore |->
         pushTo(variant,
                IF variant = "drawSolution" THEN NewQueue ELSE <<>>,
                mazeGetCell(0, 0)),
     solutionPath |-> <<>>,
     curr |-> Null,
     i |-> 0]

\* the solver is called on the generated maze with a new MazePath
SolveStart ==
    /\ pc = "done"
    /\ solver = SolverIdle
    /\ \E variant \in Variants : solver' = solverStart(variant)
    /\ mazePath' = NewMazePath(rows, columns)
    /\ UNCHANGED lastPathCall
    /\ UNCHANGED mazeVars
    /\ UNCHANGED pqVars
    /\ UNCHANGED gameVars
    /\ UNCHANGED fetchVars
    /\ UNCHANGED queueVars

\* one iteration of the search loop: the next cell is taken off toExplore
\* and its neighbours are looked at
explore(s) ==
    CHOOSE result \in
        {visitNeighbours(getNeighbours(r.ret), r.ret,
                         [s EXCEPT !.toExplore = r.q]) :
            r \in {popFrom(s.variant, s.toExplore)}} :
        TRUE

SolveExplore ==
    /\ solver.pc = "bfs"
    /\ sizeOf(solver.variant, solver.toExplore) # 0
    /\ solver' = explore(solver)
    /\ UNCHANGED pathVars
    /\ UNCHANGED mazeVars
    /\ UNCHANGED pqVars
    /\ UNCHANGED gameVars
    /\ UNCHANGED fetchVars
    /\ UNCHANGED queueVars

\* the search loop ends: the walk back starts at the bottom-right cell
exploreEnd(s) ==
    IF s.variant = "drawSolution"
    THEN [s EXCEPT !.pc = "trace",
                   !.curr = mazeGetCell(rows - 1, columns - 1)]
    ELSE [s EXCEPT !.pc = "trace",
                   !.toExplore =
                       Append(s.toExplore,
                              mazeGetCell(rows - 1, columns - 1))]

SolveExploreDone ==
    /\ solver.pc = "bfs"
    /\ sizeOf(solver.variant, solver.toExplore) = 0
    /\ solver' = exploreEnd(solver)
    /\ UNCHANGED pathVars
    /\ UNCHANGED mazeVars
    /\ UNCHANGED pqVars
    /\ UNCHANGED gameVars
    /\ UNCHANGED fetchVars
    /\ UNCHANGED queueVars

\* one iteration of getSolution's walk back; discoveredFrom of a cell the
\* search never reached is undefined and .equals on it is a TypeError
traceGetSolution(s) ==
    LET curr == Head(s.toExplore)
        from == s.discoveredFrom[XY(curr)]
    IN  IF from = Null
        THEN [s EXCEPT !.pc = "thrown",
                       !.toExplore = Tail(s.toExplore),
                       !.solutionPath = Append(s.solutionPath, curr)]
        ELSE [s EXCEPT !.toExplore =
                           IF ~equals(from, mazeGetCell(0, 0))
                           THEN Append(Tail(s.toExplore), from)
                           ELSE Tail(s.toExplore),
                       !.solutionPath = Append(s.solutionPath, curr)]

\* one iteration of drawSolution's walk back
traceDrawSolution(s) ==
    [s EXCEPT !.solutionPath = Append(s.solutionPath, s.curr),
              !.curr = s.discoveredFrom[XY(s.curr)]]

\* whether the walk back has another iteration
traceContinues(s) ==
    IF s.variant = "drawSolution" THEN s.curr # Null
    ELSE Len(s.toExplore) # 0

\* one iteration of the walk back
trace(s) ==
    IF s.variant = "drawSolution" THEN traceDrawSolution(s)
    ELSE traceGetSolution(s)

SolveTrace ==
    /\ solver.pc = "trace"
    /\ traceContinues(solver)
    /\ solver' = trace(solver)
    /\ UNCHANGED pathVars
    /\ UNCHANGED mazeVars
    /\ UNCHANGED pqVars
    /\ UNCHANGED gameVars
    /\ UNCHANGED fetchVars
    /\ UNCHANGED queueVars

\* the walk back without the top-left cell pushed after it
traceEndNoOrigin(s) ==
    [s EXCEPT !.pc = "add", !.i = Len(s.solutionPath) - 1]

\* after the walk back: solutionPath.push(maze.getCell(0, 0)), and the loop
\* over solutionPath from its last element starts
traceEnd(s) ==
    [s EXCEPT !.pc = "add",
              !.solutionPath = Append(s.solutionPath, mazeGetCell(0, 0)),
              !.i = Len(s.solutionPath)]

SolveTraceDone ==
    /\ solver.pc = "trace"
    /\ ~traceContinues(solver)
    /\ solver' = traceEnd(solver)
    /\ UNCHANGED pathVars
    /\ UNCHANGED mazeVars
    /\ UNCHANGED pqVars
    /\ UNCHANGED gameVars
    /\ UNCHANGED fetchVars
    /\ UNCHANGED queueVars

\* mazePath.add(solutionPath[i]), from the last element down to the first
SolveAdd ==
    /\ solver.pc = "add"
    /\ solver.i >= 0
    /\ mazePath' = add(mazePath, solver.solutionPath[solver.i + 1])
    /\ solver' = [solver EXCEPT !.i = solver.i - 1]
    /\ UNCHANGED lastPathCall
    /\ UNCHANGED mazeVars
    /\ UNCHANGED pqVars
    /\ UNCHANGED gameVars
    /\ UNCHANGED fetchVars
    /\ UNCHANGED queueVars

\* the solver returns; its locals are dropped
SolveReturn ==
    /\ solver.pc = "add"
    /\ solver.i < 0
    /\ solver' = [pc |-> "done", variant |-> solver.variant]
    /\ UNCHANGED pathVars
    /\ UNCHANGED mazeVars
    /\ UNCHANGED pqVars
    /\ UNCHANGED gameVars
    /\ UNCHANGED fetchVars
    /\ UNCHANGED queueVars

SolveSteps ==
    \/ SolveExplore
    \/ SolveExploreDone
    \/ SolveTrace
    \/ SolveTraceDone
    \/ SolveAdd
    \/ SolveReturn

NextSolve == NextMaze \/ SolveStart \/ SolveSteps

SpecSolve == InitMaze /\ [][NextSolve]_vars

\* a call of the solver runs to its end: its steps are not held up
FairSpecSolve == SpecSolve /\ WF_vars(SolveSteps)

---------------------------------------------------------------------------
(* Specification of the solver on a maze received from the server.  The    *)
(* client turns the parsed response into a Maze by setting prototypes, so  *)
(* the open pattern of the board is whatever the response holds; here the  *)
(* response has the shape of a Maze (rows x columns cells, each with its   *)
(* own row and column) and any pattern of open and closed cells.           *)

InitReceivedMaze ==
    /\ rows \in 1..MaxCells
    /\ columns \in 1..MaxCells
    /\ rows * columns <= MaxCells
    /\ board \in [Cells(rows, columns) -> BOOLEAN]
    /\ weights = NoTable
    /\ visited = NoTable
    /\ pc = "done"
    /\ ctorError = "none"
    /\ PQIdle
    /\ PathIdle

NextSolveReceived == SolveStart \/ SolveSteps

SpecSolveReceived == InitReceivedMaze /\ [][NextSolveReceived]_vars

FairSpecSolveReceived == SpecSolveReceived /\ WF_vars(SolveSteps)

---------------------------------------------------------------------------
(* The maze on its way from the server to the page.  res.send(maze) sends  *)
(* JSON.stringify(maze): the fields rows, columns and board of the Maze,   *)
(* and of each Cell of the board its fields row, column and open.  The     *)
(* text of a number or of a literal is a sequence of characters; the body  *)
(* keeps the structure of the object and holds these texts at its leaves.  *)
(* res.json() on the page parses the texts back into values.               *)

DigitChars == <<"0", "1", "2", "3", "4", "5", "6", "7", "8", "9">>

IsDigit(ch) == \E d \in 1..10 : DigitChars[d] = ch

digitValue(ch) == (CHOOSE d \in 1..10 : DigitChars[d] = ch) - 1

\* the decimal digits of a natural number
RECURSIVE formatNat(_)
formatNat(n) ==
    IF n < 10 THEN <<DigitChars[n + 1]>>
    ELSE formatNat(n \div 10) \o <<DigitChars[(n % 10) + 1]>>

\* JSON.stringify of an integer
stringifyNumber(n) ==
    IF n < 0 THEN <<"-">> \o formatNat(-n) ELSE formatNat(n)

TrueText == <<"t", "r", "u", "e">>
FalseText == <<"f", "a", "l", "s", "e">>
NullText == <<"n", "u", "l", "l">>

\* JSON.stringify of a boolean that writes every boolean as true
stringifyBooleanAlwaysTrue(b) == TrueText

\* JSON.stringify of a boolean
stringifyBoolean(b) == IF b THEN TrueText ELSE FalseText

\* JSON.stringify(maze)
stringifyMaze(rws, cls, brd) ==
    [rows |-> stringifyNumber(rws),
     columns |-> stringifyNumber(cls),
     board |-> [pos \in Cells(rws, cls) |->
                   [row |-> stringifyNumber(pos[1]),
                    column |-> stringifyNumber(pos[2]),
                    open |-> stringifyBoolean(brd[pos])]]]

\* the values of JavaScript that a leaf of the body can parse to
JSBoolean(b) ==
    [type |-> "boolean", b |-> b, num |-> 0, den |-> 1, s |-> <<>>]
JSNumber(num, den) ==
    [type |-> "number", b |-> FALSE, num |-> num, den |-> den, s |-> <<>>]
JSString(s) ==
    [type |-> "string", b |-> FALSE, num |-> 0, den |-> 1, s |-> s]
JSNull ==
    [type |-> "null", b |-> FALSE, num |-> 0, den |-> 1, s |-> <<>>]

\* the number that a sequence of digits writes
RECURSIVE parseNat(_)
parseNat(ds) ==
    IF ds = <<>> THEN 0
    ELSE parseNat(SubSeq(ds, 1, Len(ds) - 1)) * 10
             + digitValue(ds[Len(ds)])

RECURSIVE pow10(_)
pow10(k) == IF k = 0 THEN 1 ELSE 10 * pow10(k - 1)

\* JSON.parse of the text of a number: sign, digits, and digits after a
\* point; the value is num / den
parseNumber(text) ==
    LET negative == Head(text) = "-"
        digits == IF negative THEN Tail(text) ELSE text
        point == IF \E i \in 1..Len(digits) : digits[i] = "."
                 THEN CHOOSE i \in 1..Len(digits) : digits[i] = "."
                 ELSE Len(digits) + 1
        whole == SubSeq(digits, 1, point - 1)
        fraction == SubSeq(digits, point + 1, Len(digits))
        den == pow10(Len(fraction))
        num == parseNat(whole) * den + parseNat(fraction)
    IN  JSNumber(IF negative THEN -num ELSE num, den)

\* JSON.parse of a leaf
parseLeaf(text) ==
    IF text = TrueText THEN JSBoolean(TRUE)
    ELSE IF text = FalseText THEN JSBoolean(FALSE)
    ELSE IF text = NullText THEN JSNull
    ELSE IF Head(text) = "\""
    THEN JSString(SubSeq(text, 2, Len(text) - 1))
    ELSE parseNumber(text)

\* res.json(): the object the body parses to
parseMaze(body) ==
    [rows |-> parseLeaf(body.rows),
     columns |-> parseLeaf(body.columns),
     board |-> [pos \in DOMAIN body.board |->
                   [row |-> parseLeaf(body.board[pos].row),
                    column |-> parseLeaf(body.board[pos].column),
                    open |-> parseLeaf(body.board[pos].open)]]]

\* whether a value counts as true in a condition
truthy(v) ==
    IF v.type = "boolean" THEN v.b
    ELSE IF v.type = "number" THEN v.num # 0
    ELSE IF v.type = "string" THEN v.s # <<>>
    ELSE FALSE

IsInteger(v) == v.type = "number" /\ v.num % v.den = 0

\* the integer a number value is, for a value that is an integer
toInteger(v) == v.num \div v.den

\* whether array[v] is an element of an array of the given length: v is an
\* integer from 0 to length - 1, or the string that writes one
IsIndex(v, length) ==
    \/ IsInteger(v) /\ 0 <= toInteger(v) /\ toInteger(v) < length
    \/ /\ v.type = "string"
       /\ v.s # <<>>
       /\ \A i \in 1..Len(v.s) : IsDigit(v.s[i])
       /\ formatNat(parseNat(v.s)) = v.s
       /\ parseNat(v.s) < length

\* the index array[v] reads, for a value that is an index
toIndex(v) == IF v.type = "string" THEN parseNat(v.s) ELSE toInteger(v)

\* maze.isOpen(row, column) of the maze made of the parsed object, as a
\* condition sees it
receivedIsOpen(data, row, column) == truthy(data.board[<<row, column>>].open)

\* GET /generateMaze: the maze is constructed (the steps of the Maze
\* constructor) and res.send(maze) sends it
ServerSend ==
    /\ pc = "done"
    /\ response.state # "sent"
    /\ response' = [state |-> "sent",
                    body |-> stringifyMaze(rows, columns, board),
                    altered |-> FALSE,
                    thrown |-> FALSE]
    /\ UNCHANGED mazeVars
    /\ UNCHANGED pqVars
    /\ UNCHANGED pathVars
    /\ UNCHANGED solverVars
    /\ UNCHANGED gameVars
    /\ UNCHANGED queueVars

\* texts that are not the text of a non-negative integer
BadNumberTexts == {<<"-", "1">>, <<"1", ".", "5">>, <<"\"", "0", "\"">>}

\* texts that are not the text of a boolean
BadBooleanTexts == {<<"\"", "y", "e", "s", "\"">>, <<"0">>, <<"1">>, NullText}

\* a response that does not come from this server: one field of one cell
\* of the body holds something else
AlterResponse ==
    /\ response.state = "sent"
    /\ ~response.altered
    /\ \E pos \in DOMAIN response.body.board :
          \/ \E text \in BadNumberTexts :
                response' = [response EXCEPT !.altered = TRUE,
                                             !.body.board[pos].row = text]
          \/ \E text \in BadNumberTexts :
                response' = [response EXCEPT !.altered = TRUE,
                                             !.body.board[pos].column = text]
          \/ \E text \in BadBooleanTexts :
                response' = [response EXCEPT !.altered = TRUE,
                                             !.body.board[pos].open = text]
    /\ UNCHANGED mazeVars
    /\ UNCHANGED pqVars
    /\ UNCHANGED pathVars
    /\ UNCHANGED solverVars
    /\ UNCHANGED gameVars
    /\ UNCHANGED queueVars

---------------------------------------------------------------------------
(* The game page (app.ts): the maze the server generated is received, a    *)
(* MazeGame is made of it, and the user presses and releases mouse         *)
(* buttons, moves the mouse over the canvas and clicks the buttons of the  *)
(* page.  mazePath is gameInstance.mazePath.  The maze of the game is the  *)
(* object the response parses to; the cells the game hands to its path     *)
(* are the cells of board, which that object holds when the response is    *)
(* the one the server sent.                                                *)

\* new MazeGame(1000, 500, data)
CanvasWidth == 1000
CanvasHeight == 500

\* getSolution(maze, mazePath) run from its first statement to its return:
\* the steps of the solver one after the other.  s holds the locals, mp the
\* MazePath handed in.
RECURSIVE runSolver(_, _)
runSolver(s, mp) ==
    IF s.pc = "bfs"
    THEN IF sizeOf(s.variant, s.toExplore) # 0
         THEN runSolver(explore(s), mp)
         ELSE runSolver(exploreEnd(s), mp)
    ELSE IF s.pc = "trace"
    THEN IF traceContinues(s)
         THEN runSolver(trace(s), mp)
         ELSE runSolver(traceEnd(s), mp)
    ELSE IF s.pc = "add"
    THEN IF s.i >= 0
         THEN runSolver([s EXCEPT !.i = s.i - 1],
                        add(mp, s.solutionPath[s.i + 1]))
         ELSE [mp |-> mp, thrown |-> FALSE]
    ELSE [mp |-> mp, thrown |-> TRUE]

getSolution(mp) == runSolver(solverStart("getSolution"), mp)

\* the cell of the path's maze that a cell of the parsed object is, for a
\* cell whose row and column are indices and whose open is a boolean
receivedCell(c) ==
    [maze |-> ThisMaze, pos |-> <<toIndex(c.row), toIndex(c.column)>>,
     open |-> c.open.b]

\* mazePath.add(maze.getCell(0, 0)) on the new path of the constructor.
\* For a cell whose fields are not two indices and a boolean: add does
\* nothing when open is not truthy; cellPositions[row] is undefined when row
\* is not an index, and the assignment to its element throws; otherwise the
\* cell is pushed, and cellPositions changes only if column is an index.
firstAdd(data) ==
    LET c == data.board[<<0, 0>>]
        nRows == toInteger(data.rows)
        nColumns == toInteger(data.columns)
        new == NewMazePath(nRows, nColumns)
        wellFormed == /\ IsIndex(c.row, nRows)
                      /\ IsIndex(c.column, nColumns)
                      /\ c.open.type = "boolean"
    IN  IF wellFormed
        THEN [mp |-> add(new, receivedCell(c)), thrown |-> FALSE]
        ELSE IF ~truthy(c.open)
        THEN [mp |-> new, thrown |-> FALSE]
        ELSE IF ~IsIndex(c.row, nRows)
        THEN [mp |-> new, thrown |-> TRUE]
        ELSE [mp |-> [path |-> <<[maze |-> ThisMaze, pos |-> <<0, 0>>,
                                  open |-> TRUE]>>,
                      cellPositions |->
                          IF IsIndex(c.column, nColumns)
                          THEN [new.cellPositions EXCEPT
                                    ![<<toIndex(c.row),
                                        toIndex(c.column)>>] = 0]
                          ELSE new.cellPositions],
              thrown |-> FALSE]

\* new MazeGame(1000, 500, data): the maze is drawn, the path is made and
\* the first cell is added to it, the listener is added to the canvas; the
\* old canvas is replaced before anything can throw
NewMazeGame(g, mp, data) ==
    CHOOSE result \in
        {IF r.thrown
         THEN [game |-> [g EXCEPT !.listening = FALSE],
               mazePath |-> mp,
               thrown |-> TRUE]
         ELSE [game |-> [g EXCEPT !.instance = TRUE, !.listening = TRUE,
                                  !.isMazeSolved = FALSE,
                                  !.lastCell = Null,
                                  !.lengthBefore = 0,
                                  !.positionBefore = -1,
                                  !.solveMazeRan = FALSE,
                                  !.completedByUser = FALSE],
               mazePath |-> r.mp,
               thrown |-> FALSE] :
            r \in {firstAdd(data)}} :
        TRUE

\* solveMaze(): isMazeSolved is set before getSolution is called, and
\* this.mazePath is assigned only if getSolution returns
solveMaze(g, mp) ==
    IF ~g.isMazeSolved
    THEN CHOOSE result \in
             {[game |-> [g EXCEPT !.isMazeSolved = TRUE,
                                  !.thrown = r.thrown],
               mazePath |-> IF r.thrown THEN mp ELSE r.mp] :
                 r \in {getSolution(NewMazePath(rows, columns))}} :
             TRUE
    ELSE [game |-> g, mazePath |-> mp]

\* Math.floor(canvasY / cellHeight) with cellHeight = canvas.height / rows
cellRowAt(canvasY) == (canvasY * rows) \div CanvasHeight

\* Math.floor(canvasX / cellWidth) with cellWidth = canvas.width / columns
cellColumnAt(canvasX) == (canvasX * columns) \div CanvasWidth

\* the loop over the neighbours that ends after the first neighbour found
\* on the path
RECURSIVE removeAfterFirstNeighbour(_, _, _)
removeAfterFirstNeighbour(cs, cellToAdd, r) ==
    IF cs = <<>> \/ r.thrown THEN r
    ELSE LET position == getPosition(r.mp, Head(cs))
             cellToRemove == getCell(r.mp, position + 1)
         IN  IF position # -1
             THEN IF cellToRemove # cellToAdd
                  THEN remove(r.mp, cellToRemove)
                  ELSE r
             ELSE removeAfterFirstNeighbour(Tail(cs), cellToAdd, r)

\* handleMouseDrag's loop over the neighbours of cellToAdd: the cell after
\* a neighbour that is on the path is removed, unless it is cellToAdd.
\* r is [mp, thrown]; a call that throws ends the handler.
RECURSIVE removeAfterNeighbours(_, _, _)
removeAfterNeighbours(cs, cellToAdd, r) ==
    IF cs = <<>> \/ r.thrown THEN r
    ELSE LET position == getPosition(r.mp, Head(cs))
             cellToRemove == getCell(r.mp, position + 1)
         IN  removeAfterNeighbours(
                 Tail(cs), cellToAdd,
                 IF position # -1 /\ cellToRemove # cellToAdd
                 THEN remove(r.mp, cellToRemove)
                 ELSE r)

\* the body of handleMouseDrag that removes the cell under the mouse, not
\* the cell after it, when the cell is on the path
dragOntoRemovesPointed(g, mp, cellToAdd) ==
    LET removed1 ==
            IF getPosition(mp, cellToAdd) # -1
            THEN remove(mp, getCell(mp, getPosition(mp, cellToAdd)))
            ELSE removeAfterNeighbours(getNeighbours(cellToAdd), cellToAdd,
                                       [mp |-> mp, thrown |-> FALSE])
        added == add(removed1.mp, cellToAdd)
        complete == isComplete(added)
    IN  IF removed1.thrown
        THEN [game |-> [g EXCEPT !.thrown = TRUE], mazePath |-> removed1.mp]
        ELSE IF cellToAdd = mazeGetCell(rows - 1, columns - 1)
        THEN [game |-> [g EXCEPT !.thrown = complete.thrown,
                                 !.isMazeSolved =
                                     IF complete.ret THEN TRUE
                                     ELSE g.isMazeSolved,
                                 !.completedByUser =
                                     IF complete.ret THEN TRUE
                                     ELSE g.completedByUser],
              mazePath |-> added]
        ELSE [game |-> [g EXCEPT !.thrown = FALSE], mazePath |-> added]

\* the body of handleMouseDrag that removes nothing for a cell on the path
dragOntoKeepsTail(g, mp, cellToAdd) ==
    LET removed1 ==
            IF getPosition(mp, cellToAdd) # -1
            THEN [mp |-> mp, thrown |-> FALSE]
            ELSE removeAfterNeighbours(getNeighbours(cellToAdd), cellToAdd,
                                       [mp |-> mp, thrown |-> FALSE])
        added == add(removed1.mp, cellToAdd)
        complete == isComplete(added)
    IN  IF removed1.thrown
        THEN [game |-> [g EXCEPT !.thrown = TRUE], mazePath |-> removed1.mp]
        ELSE IF cellToAdd = mazeGetCell(rows - 1, columns - 1)
        THEN [game |-> [g EXCEPT !.thrown = complete.thrown,
                                 !.isMazeSolved =
                                     IF complete.ret THEN TRUE
                                     ELSE g.isMazeSolved,
                                 !.completedByUser =
                                     IF complete.ret THEN TRUE
                                     ELSE g.completedByUser],
              mazePath |-> added]
        ELSE [game |-> [g EXCEPT !.thrown = FALSE], mazePath |-> added]

\* the body of handleMouseDrag once a cell that is open is under the mouse
dragOnto(g, mp, cellToAdd) ==
    LET removed1 ==
            IF getPosition(mp, cellToAdd) # -1
            THEN remove(mp, getCell(mp, getPosition(mp, cellToAdd) + 1))
            ELSE removeAfterNeighbours(getNeighbours(cellToAdd), cellToAdd,
                                       [mp |-> mp, thrown |-> FALSE])
        added == add(removed1.mp, cellToAdd)
        complete == isComplete(added)
    IN  IF removed1.thrown
        THEN [game |-> [g EXCEPT !.thrown = TRUE], mazePath |-> removed1.mp]
        ELSE IF cellToAdd = mazeGetCell(rows - 1, columns - 1)
        THEN [game |-> [g EXCEPT !.thrown = complete.thrown,
                                 !.isMazeSolved =
                                     IF complete.ret THEN TRUE
                                     ELSE g.isMazeSolved,
                                 !.completedByUser =
                                     IF complete.ret THEN TRUE
                                     ELSE g.completedByUser],
              mazePath |-> added]
        ELSE [game |-> [g EXCEPT !.thrown = FALSE], mazePath |-> added]

\* handleMouseDrag without the test of isMazeSolved
handleMouseDragWhenSolved(g, mp, canvasX, canvasY) ==
    IF g.isUserMouseDown
    THEN LET cellToAdd ==
                 mazeGetCell(cellRowAt(canvasY), cellColumnAt(canvasX))
         IN  IF cellToAdd # Null /\ isOpen(cellToAdd)
             THEN dragOnto(g, mp, cellToAdd)
             ELSE [game |-> [g EXCEPT !.thrown = FALSE], mazePath |-> mp]
    ELSE [game |-> [g EXCEPT !.thrown = FALSE], mazePath |-> mp]

\* handleMouseDrag(canvas, event)
handleMouseDrag(g, mp, canvasX, canvasY) ==
    IF g.isUserMouseDown /\ ~g.isMazeSolved
    THEN LET cellToAdd ==
                 mazeGetCell(cellRowAt(canvasY), cellColumnAt(canvasX))
         IN  IF cellToAdd # Null /\ isOpen(cellToAdd)
             THEN dragOnto(g, mp, cellToAdd)
             ELSE [game |-> [g EXCEPT !.thrown = FALSE], mazePath |-> mp]
    ELSE [game |-> [g EXCEPT !.thrown = FALSE], mazePath |-> mp]

\* the x coordinates of mouse events over the canvas and its border: one
\* pixel inside each column, the last pixel of the canvas and the border
\* to its right
CanvasXs ==
    {CanvasWidth - 1, CanvasWidth} \cup
    {(c * CanvasWidth) \div columns + 1 : c \in 0..(columns - 1)}

CanvasYs ==
    {CanvasHeight - 1, CanvasHeight} \cup
    {(r * CanvasHeight) \div rows + 1 : r \in 0..(rows - 1)}

\* event.button
Buttons == 0..2

\* the response to the click on "Generate a maze" arrives: the body is
\* parsed, the object and its cells are given the prototypes of Maze and
\* Cell, and a game is made of it; an error is logged
GenerateMazeResponse ==
    /\ response.state = "sent"
    /\ \E r \in {NewMazeGame(game, mazePath, parseMaze(response.body))} :
          /\ game' = [r.game EXCEPT !.lastEvent = "generate",
                                    !.thrown = r.thrown]
          /\ mazePath' = r.mazePath
          /\ response' = [response EXCEPT !.state = "handled",
                                          !.thrown = r.thrown]
    /\ UNCHANGED lastPathCall
    /\ UNCHANGED mazeVars
    /\ UNCHANGED pqVars
    /\ UNCHANGED solverVars
    /\ UNCHANGED queueVars

\* click on "Give up"
GiveUpClick ==
    /\ pc = "done"
    /\ IF game.instance
       THEN \E r \in {solveMaze(game, mazePath)} :
               /\ game' = [r.game EXCEPT !.lastEvent = "giveUp",
                                         !.lastCell = Null,
                                         !.lengthBefore = 0,
                                         !.positionBefore = -1,
                                         !.solveMazeRan = TRUE]
               /\ mazePath' = r.mazePath
       ELSE /\ game' = [game EXCEPT !.lastEvent = "giveUp",
                                    !.lastCell = Null,
                                    !.lengthBefore = 0,
                                    !.positionBefore = -1,
                                    !.thrown = FALSE]
            /\ UNCHANGED mazePath
    /\ UNCHANGED lastPathCall
    /\ UNCHANGED mazeVars
    /\ UNCHANGED pqVars
    /\ UNCHANGED solverVars
    /\ UNCHANGED fetchVars
    /\ UNCHANGED queueVars

\* mousedown on the document
MouseDown ==
    /\ pc = "done"
    /\ \E button \in Buttons :
          game' = [game EXCEPT !.isUserMouseDown =
                                   IF button = 0 THEN TRUE
                                   ELSE game.isUserMouseDown,
                               !.lastEvent = "mousedown",
                               !.lastCell = Null,
                               !.lengthBefore = 0,
                               !.positionBefore = -1,
                               !.thrown = FALSE]
    /\ UNCHANGED pathVars
    /\ UNCHANGED mazeVars
    /\ UNCHANGED pqVars
    /\ UNCHANGED solverVars
    /\ UNCHANGED fetchVars
    /\ UNCHANGED queueVars

\* mouseup on the document
MouseUp ==
    /\ pc = "done"
    /\ \E button \in Buttons :
          game' = [game EXCEPT !.isUserMouseDown =
                                   IF button = 0 THEN FALSE
                                   ELSE game.isUserMouseDown,
                               !.lastEvent = "mouseup",
                               !.lastCell = Null,
                               !.lengthBefore = 0,
                               !.positionBefore = -1,
                               !.thrown = FALSE]
    /\ UNCHANGED pathVars
    /\ UNCHANGED mazeVars
    /\ UNCHANGED pqVars
    /\ UNCHANGED solverVars
    /\ UNCHANGED fetchVars
    /\ UNCHANGED queueVars

\* mousemove on the canvas of the game
MouseMove ==
    /\ pc = "done"
    /\ game.instance
    /\ game.listening
    /\ \E canvasX \in CanvasXs, canvasY \in CanvasYs :
          \E r \in {handleMouseDrag(game, mazePath, canvasX, canvasY)} :
             /\ game' = [r.game EXCEPT
                             !.lastEvent = "mousemove",
                             !.lastCell =
                                 mazeGetCell(cellRowAt(canvasY),
                                             cellColumnAt(canvasX)),
                             !.lengthBefore = Len(mazePath.path),
                             !.positionBefore =
                                 IF mazeGetCell(cellRowAt(canvasY),
                                                cellColumnAt(canvasX)) = Null
                                 THEN -1
                                 ELSE getPosition(
                                          mazePath,
                                          mazeGetCell(cellRowAt(canvasY),
                                                      cellColumnAt(canvasX)))]
             /\ mazePath' = r.mazePath
    /\ UNCHANGED lastPathCall
    /\ UNCHANGED mazeVars
    /\ UNCHANGED pqVars
    /\ UNCHANGED solverVars
    /\ UNCHANGED fetchVars
    /\ UNCHANGED queueVars

NextGame ==
    \/ NextMaze
    \/ ServerSend
    \/ GenerateMazeResponse
    \/ GiveUpClick
    \/ MouseDown
    \/ MouseUp
    \/ MouseMove

SpecGame == InitMaze /\ [][NextGame]_vars

\* the page asks for mazes and makes games of the responses, which may not
\* be what the server sent
NextFetch ==
    \/ NextMaze
    \/ ServerSend
    \/ AlterResponse
    \/ GenerateMazeResponse

SpecFetch == InitMaze /\ [][NextFetch]_vars

\* the game on a maze of up to MaxGameCells cells that a server sent, with
\* any pattern of open and closed cells around the cell (0,0), which
\* initBoard opens in every maze
InitReceivedGame ==
    /\ rows \in 1..MaxGameCells
    /\ columns \in 1..MaxGameCells
    /\ rows * columns <= MaxGameCells
    /\ board \in [Cells(rows, columns) -> BOOLEAN]
    /\ board[<<0, 0>>]
    /\ weights = NoTable
    /\ visited = NoTable
    /\ pc = "done"
    /\ ctorError = "none"
    /\ PQIdle
    /\ PathIdle

NextGameReceived ==
    \/ ServerSend
    \/ GenerateMazeResponse
    \/ GiveUpClick
    \/ MouseDown
    \/ MouseUp
    \/ MouseMove

SpecGameReceived == InitReceivedGame /\ [][NextGameReceived]_vars

---------------------------------------------------------------------------
(* Claims about the priority queue, checked under SpecPQ. *)

\* C1: for any sequence of inserts on an empty queue followed by removeMin
\* calls repeated until size() is 0, the priorities of the returned elements
\* form a non-decreasing sequence.
C1_DrainIsNonDecreasing ==
    (fresh /\ size(pq) = 0) => NonDecreasing(removed)

\* C2: removeMin called when size() is 0 fails with an empty-queue error and
\* leaves the queue unchanged: size() is still 0 afterwards and the queue is
\* the one a constructor call yields.
C2_EmptyRemoveMinLeavesQueue ==
    (lastCall.op = "removeMin" /\ lastCall.sizeBefore = 0)
        => (lastCall.thrown /\ size(pq) = 0 /\ pq = EmptyPQ)

---------------------------------------------------------------------------
(* Claims about the Maze constructor, checked under SpecMaze. *)

Abs(x) == IF x < 0 THEN -x ELSE x

\* two cells at Manhattan distance 1
Adjacent(a, b) == Abs(a[1] - b[1]) + Abs(a[2] - b[2]) = 1

\* the open cells joined to a cell of S by a chain of adjacent open cells
RECURSIVE OpenReach(_, _)
OpenReach(b, S) ==
    LET more == {c \in DOMAIN b : b[c] /\ \E s \in S : Adjacent(s, c)}
    IN  IF more \subseteq S THEN S ELSE OpenReach(b, S \cup more)

FromOrigin == OpenReach(board, {<<0, 0>>})

Even(n) == \E k \in 0..n : n = 2 * k

FairSpecMaze == SpecMaze /\ WF_vars(NextMaze)

\* C3: in every generated grid the bottom-right cell (rows-1, columns-1) is
\* reachable from (0,0) through a chain of adjacent open cells.
C3_DestinationReachable ==
    pc = "done" =>
        /\ board[<<0, 0>>]
        /\ board[<<rows - 1, columns - 1>>]
        /\ <<rows - 1, columns - 1>> \in FromOrigin

\* a finished 3x3 maze whose wall (0,1) stayed closed: the destination is
\* reached around the other side
C3_Witness ==
    /\ pc = "done"
    /\ rows = 3 /\ columns = 3
    /\ ~board[<<0, 1>>]
    /\ <<2, 2>> \in FromOrigin

\* C4: after generation every open cell of the grid, skeleton-open or
\* carved, is connected to (0,0) by a chain of adjacent open cells, for odd
\* and for even row and column counts.
C4_EveryOpenCellConnected ==
    pc = "done" =>
        \A cell \in Cells(rows, columns) : board[cell] => cell \in FromOrigin

\* a finished maze with an even row count, a carved wall and the last row's
\* cells connected
C4_Witness ==
    /\ pc = "done"
    /\ rows = 2 /\ columns = 3
    /\ board[<<0, 1>>]
    /\ {<<1, 0>>, <<1, 2>>} \subseteq FromOrigin

\* C5: maze generation terminates for every grid and every sequence of
\* random outcomes: the loop ends with the priority queue empty.
C5_GenerationTerminates == <>(pc = "done")

\* generation of a 3x3 maze ended with all four walls carved (the 3%
\* opening was taken)
C5_Witness ==
    /\ pc = "done"
    /\ rows = 3 /\ columns = 3
    /\ board[<<0, 1>>] /\ board[<<1, 0>>] /\ board[<<1, 2>>] /\ board[<<2, 1>>]

\* C6: before carving, the cell at (row, col) is open if and only if (row is
\* even or row = rows-1) and (col is even or col = columns-1).
C6_SkeletonRule ==
    pc = "built" =>
        \A cell \in Cells(rows, columns) :
            board[cell] <=>
                /\ (Even(cell[1]) \/ cell[1] = rows - 1)
                /\ (Even(cell[2]) \/ cell[2] = columns - 1)

\* a fresh 2x3 board: the odd last row is open at its even columns, the odd
\* column is closed
C6_Witness ==
    /\ pc = "built"
    /\ rows = 2 /\ columns = 3
    /\ board[<<1, 0>>] /\ board[<<1, 2>>]
    /\ ~board[<<0, 1>>] /\ ~board[<<1, 1>>]

---------------------------------------------------------------------------
(* Claims about the constructor's dimension check, checked under SpecDim. *)

\* a * b <= 2^31 - 1 for 1 <= a, b < 2^31, by long multiplication on
\* digits of base 2^15 (no intermediate value reaches 2^31)
ProductFits(a, b) ==
    LET B == 32768
        a0 == a % B
        a1 == (a \div B) % B
        a2 == a \div (B * B)
        b0 == b % B
        b1 == (b \div B) % B
        b2 == b \div (B * B)
        c0 == a0 * b0
        c1 == a0 * b1 + a1 * b0
        c2 == a0 * b2 + a1 * b1 + a2 * b0
        c3 == a1 * b2 + a2 * b1
        c4 == a2 * b2
        s1 == c1 + (c0 \div B)
        s2 == c2 + (s1 \div B)
    IN  c4 = 0 /\ c3 = 0 /\ s2 < 2

DimensionErrors == {"One of rows and columns is 0.", "Maze size is too large."}

\* C7: for every rows >= 1 and columns >= 1 with rows * columns <= 2^31 - 1
\* the constructor's dimension check passes and raises no error.
C7_ValidDimensionsPass ==
    (pc # "start" /\ rows >= 1 /\ columns >= 1 /\ ProductFits(rows, columns))
        => (pc = "checked" /\ ctorError = "none")

\* the check passed for a size just under the limit
C7_Witness ==
    /\ pc = "checked"
    /\ rows = 46340 /\ columns = 46341
    /\ ProductFits(rows, columns)

\* C8: for every pair with rows < 1, or columns < 1, or rows * columns >
\* 2^31 - 1, the dimension check rejects the pair with its dimension error
\* (including a negative rows with a positive columns).
C8_InvalidDimensionsRejected ==
    (pc # "start" /\ (rows < 1 \/ columns < 1 \/ ~ProductFits(rows, columns)))
        => (pc = "thrown" /\ ctorError \in DimensionErrors)

---------------------------------------------------------------------------
(* Claims about MazePath, checked under SpecPath. *)

PathCells == {mazePath.path[i] : i \in 1..Len(mazePath.path)}

\* C9: after any sequence of add and remove calls with arbitrary cells, no
\* cell appears at two positions of the path.
C9_NoCellTwice ==
    \A i, j \in 1..Len(mazePath.path) :
        mazePath.path[i] = mazePath.path[j] => i = j

\* add was called with the cell just before the last one, which the last
\* cell has as a neighbour, and the path still holds it once
C9_Witness ==
    /\ lastPathCall.op = "add"
    /\ Len(mazePath.path) >= 3
    /\ lastPathCall.cell = mazePath.path[Len(mazePath.path) - 1]

\* C10: after any sequence of add and remove calls, every two consecutive
\* cells of the path are at Manhattan distance 1 in the grid.
C10_ConsecutiveCellsAdjacent ==
    \A i \in 1..(Len(mazePath.path) - 1) :
        Adjacent(mazePath.path[i].pos, mazePath.path[i + 1].pos)

\* add was called with an open cell of the board that is neither on the
\* path nor next to its last cell, and the path, cut earlier by a remove,
\* is as it was
C10_Witness ==
    /\ lastPathCall.op = "add"
    /\ Len(mazePath.path) >= 2
    /\ lastPathCall.cell.maze = ThisMaze
    /\ isOpen(lastPathCall.cell)
    /\ lastPathCall.cell \notin PathCells
    /\ ~Adjacent(lastPathCall.cell.pos, mazePath.path[Len(mazePath.path)].pos)

\* C11: after any sequence of add and remove calls on a generated grid,
\* every cell in the path is an open cell of the grid the path was
\* constructed against.
C11_PathCellsOpenInOwnGrid ==
    \A i \in 1..Len(mazePath.path) :
        /\ mazePath.path[i].maze = ThisMaze
        /\ mazePath.path[i].pos \in Cells(rows, columns)
        /\ board[mazePath.path[i].pos]
        /\ mazePath.path[i] = BoardCell(mazePath.path[i].pos)

\* add was called with a closed cell of the board that lies next to the
\* last cell of a path of two or more cells
C11_Witness ==
    /\ lastPathCall.op = "add"
    /\ Len(mazePath.path) >= 2
    /\ lastPathCall.cell.maze = ThisMaze
    /\ ~isOpen(lastPathCall.cell)
    /\ Adjacent(lastPathCall.cell.pos, mazePath.path[Len(mazePath.path)].pos)

\* C12: remove(cell) for a cell at position k of a path of length n (every
\* k in 0..n-1) leaves the path with exactly its first k cells; getPosition
\* returns -1 for each of the n-k removed cells, and the cells at positions
\* below k keep their positions.  (Whether the call returns normally is not
\* part of this statement.)
C12_RemoveTruncatesAtPosition ==
    [][(lastPathCall'.op = "remove" /\ lastPathCall'.cell \in PathCells) =>
          \E k \in 0..(Len(mazePath.path) - 1) :
              /\ mazePath.path[k + 1] = lastPathCall'.cell
              /\ mazePath'.path = SubSeq(mazePath.path, 1, k)
              /\ \A i \in (k + 1)..Len(mazePath.path) :
                     getPosition(mazePath', mazePath.path[i]) = -1
              /\ \A i \in 1..k :
                     getPosition(mazePath', mazePath.path[i]) = i - 1]_vars

\* remove has cut a path of four or more cells down to at least one cell,
\* taking at least two cells off
C12_Witness ==
    /\ lastPathCall.op = "remove"
    /\ lastPathCall.lengthBefore >= 4
    /\ Len(mazePath.path) >= 1
    /\ Len(mazePath.path) <= lastPathCall.lengthBefore - 2
    /\ ~lastPathCall.thrown

\* C13: add(cell) for a cell already in the path changes nothing: the path
\* (its length and the order of its cells) and every getPosition result are
\* as before; and in every state add(c); add(c) leaves what add(c) leaves.
C13_AddOfPresentCellIsNoOp ==
    /\ [][(lastPathCall'.op = "add" /\ lastPathCall'.cell \in PathCells) =>
              /\ mazePath'.path = mazePath.path
              /\ \A c \in CellArgs \ {Null} :
                     getPosition(mazePath', c) = getPosition(mazePath, c)]_vars
    /\ [](mazePath # NoPath =>
              \A c \in CellArgs :
                  add(add(mazePath, c), c) = add(mazePath, c))

\* add was called with the first cell of a path of four or more cells whose
\* last cell lies next to the first (the path runs around a cycle)
C13_Witness ==
    /\ lastPathCall.op = "add"
    /\ Len(mazePath.path) >= 4
    /\ lastPathCall.lengthBefore = Len(mazePath.path)
    /\ lastPathCall.cell = mazePath.path[1]
    /\ Adjacent(mazePath.path[1].pos, mazePath.path[Len(mazePath.path)].pos)

\* C14: add(cell) on a non-empty path leaves the path and the position index
\* unchanged whenever the cell is closed, belongs to another grid, or is not
\* grid-adjacent to the current last cell; when the cell is open, absent and
\* adjacent to the last cell it is appended at the position equal to the old
\* length.
C14_AddOnNonEmptyPath ==
    [][(/\ lastPathCall'.op = "add"
        /\ lastPathCall'.cell # Null
        /\ Len(mazePath.path) >= 1) =>
          LET cell == lastPathCall'.cell
              last == mazePath.path[Len(mazePath.path)]
          IN  /\ (\/ ~cell.open
                  \/ cell.maze # ThisMaze
                  \/ ~Adjacent(cell.pos, last.pos)) =>
                     mazePath' = mazePath
              /\ (/\ cell.open
                  /\ cell.maze = ThisMaze
                  /\ cell \notin PathCells
                  /\ Adjacent(cell.pos, last.pos)) =>
                     /\ mazePath'.path = Append(mazePath.path, cell)
                     /\ getPosition(mazePath', cell) = Len(mazePath.path)
                     /\ \A c \in PathCells :
                            getPosition(mazePath', c) =
                                getPosition(mazePath, c)]_vars

\* add has appended a cell to a path of two or more cells
C14_Witness ==
    /\ lastPathCall.op = "add"
    /\ lastPathCall.lengthBefore >= 2
    /\ Len(mazePath.path) = lastPathCall.lengthBefore + 1
    /\ mazePath.path[Len(mazePath.path)] = lastPathCall.cell
    /\ getPosition(mazePath, lastPathCall.cell) = lastPathCall.lengthBefore

\* C15: add(cell) on an empty path makes any open cell of the path's grid
\* the cell at position 0, whatever its coordinates (it need not be the
\* top-left cell).
C15_AddOnEmptyPath ==
    [][(/\ lastPathCall'.op = "add"
        /\ Len(mazePath.path) = 0
        /\ lastPathCall'.cell.maze = ThisMaze
        /\ board[lastPathCall'.cell.pos]) =>
          /\ mazePath'.path = <<lastPathCall'.cell>>
          /\ getCell(mazePath', 0) = lastPathCall'.cell
          /\ getPosition(mazePath', lastPathCall'.cell) = 0]_vars

\* add on an empty path has made an open cell other than the top-left one
\* the cell at position 0
C15_Witness ==
    /\ lastPathCall.op = "add"
    /\ lastPathCall.lengthBefore = 0
    /\ Len(mazePath.path) = 1
    /\ mazePath.path[1] = lastPathCall.cell
    /\ lastPathCall.cell.pos # <<0, 0>>

C17_EmptyPathIsIncomplete ==
    (lastPathCall.op = "isComplete" /\ Len(mazePath.path) = 0) =>
        (~lastPathCall.thrown /\ lastPathCall.ret = FALSE)

\* C18: isComplete() returns true only for a path that runs from the
\* top-left cell to the bottom-right cell: whenever it returns true, the
\* cell at position 0 is (0,0).
C18_CompletePathStartsAtOrigin ==
    (lastPathCall.op = "isComplete" /\ ~lastPathCall.thrown
        /\ lastPathCall.ret) =>
        mazePath.path[1].pos = <<0, 0>>

\* C19: getCell(p) returns null for every p < 0 or p >= length, and
\* getPosition(c) returns -1 for every cell not in the path, cells of
\* another grid included; neither call raises an error or changes the path,
\* and for every cell c in the path getCell(getPosition(c)) is c.
C19_QueriesReturnSentinels ==
    /\ [](lastPathCall.op = "getCell" =>
             /\ ~lastPathCall.thrown
             /\ (lastPathCall.ret.position < 0
                     \/ lastPathCall.ret.position >= Len(mazePath.path)) =>
                    lastPathCall.ret.cell = Null)
    /\ [](lastPathCall.op = "getPosition" =>
             /\ ~lastPathCall.thrown
             /\ lastPathCall.cell \notin PathCells => lastPathCall.ret = -1
             /\ lastPathCall.cell \in PathCells =>
                    getCell(mazePath, lastPathCall.ret) = lastPathCall.cell)
    /\ [][lastPathCall'.op \in {"getCell", "getPosition"} =>
             mazePath' = mazePath]_vars

\* getPosition has returned -1 for a cell of another maze whose coordinates
\* are those of a cell on a path of two or more cells
C19_Witness ==
    /\ lastPathCall.op = "getPosition"
    /\ lastPathCall.cell.maze = OtherMaze
    /\ Len(mazePath.path) >= 2
    /\ \E i \in 1..Len(mazePath.path) :
           mazePath.path[i].pos = lastPathCall.cell.pos
    /\ lastPathCall.ret = -1

---------------------------------------------------------------------------
(* Claims about the solver, checked under FairSpecSolve. *)

\* C20: for every grid produced by generation, the solver (drawSolution /
\* getSolution) terminates, and the MazePath it builds starts at (0,0) and
\* ends at (rows-1, columns-1): it is never an incomplete path.
C20_SolverBuildsCompletePath ==
    /\ (solver.pc = "bfs") ~> (solver.pc = "done")
    /\ [](solver.pc # "thrown")
    /\ [](solver.pc = "done" =>
             /\ Len(mazePath.path) >= 1
             /\ mazePath.path[1].pos = <<0, 0>>
             /\ mazePath.path[Len(mazePath.path)].pos =
                    <<rows - 1, columns - 1>>
             /\ \A i \in 1..(Len(mazePath.path) - 1) :
                    /\ board[mazePath.path[i].pos]
                    /\ Adjacent(mazePath.path[i].pos,
                                mazePath.path[i + 1].pos)
             /\ isComplete(mazePath).ret)

\* the solver has returned a path of five or more cells
C20_Witness ==
    /\ solver.pc = "done"
    /\ Len(mazePath.path) >= 5
    /\ mazePath.path[1].pos = <<0, 0>>
    /\ mazePath.path[Len(mazePath.path)].pos = <<rows - 1, columns - 1>>

---------------------------------------------------------------------------
(* Claims about the solver on any board, checked under SpecSolveReceived   *)
(* and FairSpecSolveReceived.                                              *)

\* the number of steps of a shortest chain of adjacent open cells from the
\* cells of frontier to the cell target, the cells of seen being used up;
\* -1 when there is none
RECURSIVE StepsTo(_, _, _, _)
StepsTo(b, frontier, seen, target) ==
    IF target \in frontier THEN 0
    ELSE LET next == {c \in DOMAIN b :
                         /\ b[c]
                         /\ c \notin seen
                         /\ \E f \in frontier : Adjacent(c, f)}
         IN  IF next = {} THEN -1
             ELSE LET rest == StepsTo(b, next, seen \cup next, target)
                  IN  IF rest = -1 THEN -1 ELSE rest + 1

\* the breadth-first distance from (0,0) to (rows-1, columns-1) through
\* open cells, the two ends included; -1 when there is no such chain
Distance ==
    IF board[<<0, 0>>]
    THEN StepsTo(board, {<<0, 0>>}, {<<0, 0>>}, <<rows - 1, columns - 1>>)
    ELSE -1

\* C21: for every grid in which the destination is reachable, the number of
\* cells in the MazePath built by the solver equals the breadth-first
\* distance from (0,0) to (rows-1, columns-1) plus one: no shorter chain of
\* adjacent open cells from origin to destination exists.
C21_SolverPathIsShortest ==
    (solver.pc \in {"done", "thrown"} /\ Distance # -1) =>
        /\ solver.pc = "done"
        /\ Len(mazePath.path) = Distance + 1
        /\ mazePath.path[1].pos = <<0, 0>>
        /\ mazePath.path[Len(mazePath.path)].pos = <<rows - 1, columns - 1>>

\* the solver has returned a path of five cells on the 3x3 board whose cells
\* are all open, where chains of seven and of nine cells exist too
C21_Witness ==
    /\ solver.pc = "done"
    /\ rows = 3
    /\ columns = 3
    /\ \A c \in Cells(rows, columns) : board[c]
    /\ Len(mazePath.path) = 5

\* C22: when the destination (rows-1, columns-1) is not reachable from (0,0)
\* through open cells, drawSolution terminates without an error and the
\* path it builds does not end at the destination (it contains only the
\* origin).
C22_DrawSolutionOnUnreachable ==
    /\ (solver.pc = "bfs" /\ solver.variant = "drawSolution"
            /\ Distance = -1) ~> (solver.pc = "done")
    /\ [](/\ solver.pc \in {"done", "thrown"}
          /\ solver.variant = "drawSolution"
          /\ Distance = -1
          => /\ solver.pc = "done"
             /\ mazePath.path = <<BoardCell(<<0, 0>>)>>
             /\ mazePath.path[Len(mazePath.path)].pos #
                    <<rows - 1, columns - 1>>)

\* C23: when the destination (rows-1, columns-1) is not reachable from (0,0)
\* through open cells, getSolution terminates without an error: its
\* backtrace loop stops at a cell with no recorded parent and returns an
\* incomplete path.
C23_GetSolutionOnUnreachable ==
    /\ (solver.pc = "bfs" /\ solver.variant = "getSolution"
            /\ Distance = -1) ~> (solver.pc = "done")
    /\ [](/\ solver.pc \in {"done", "thrown"}
          /\ solver.variant = "getSolution"
          /\ Distance = -1
          => /\ solver.pc = "done"
             /\ ~isComplete(mazePath).ret)

---------------------------------------------------------------------------
(* Claims about the game page, checked under SpecGame. *)

\* C24: in a game instance, once solveMaze has been called or the game has
\* told the user that the maze is solved, no later mousedown, mousemove or
\* mouseup event and no later call of solveMaze changes the path of the
\* game.
C24_SolvedGameKeepsPath ==
    [][(/\ game.instance
        /\ (game.solveMazeRan \/ game.completedByUser)
        /\ game'.lastEvent # "generate")
          => mazePath' = mazePath]_vars

\* the maze was solved by the user, solveMaze was called after that, and
\* then the mouse was dragged onto a cell in the middle of the path
C24_Witness ==
    /\ game.instance
    /\ game.completedByUser
    /\ game.solveMazeRan
    /\ game.isUserMouseDown
    /\ game.lastEvent = "mousemove"
    /\ game.lastCell # Null
    /\ isOpen(game.lastCell)
    /\ getPosition(mazePath, game.lastCell) >= 0
    /\ getPosition(mazePath, game.lastCell) < Len(mazePath.path) - 1

\* C28: no MazePath operation and no run of the solver changes whether a
\* cell of the maze is open: once the maze is generated, board stays as it
\* is through every event of the game (the drag handler calls add, remove,
\* getPosition, getCell, isInPath and isComplete, solveMaze runs the
\* solver), and every cell on the path is as open as the board has it.
C28_PathAndSolverKeepBoard ==
    /\ [][pc = "done" => (board' = board /\ rows' = rows
                                         /\ columns' = columns)]_vars
    /\ [](mazePath # NoPath =>
             \A i \in 1..Len(mazePath.path) :
                mazePath.path[i].open = board[mazePath.path[i].pos])

\* the mouse was dragged over the maze and then the solver ran and found
\* the way through a maze with closed cells
C28_Witness ==
    /\ game.instance
    /\ game.solveMazeRan
    /\ game.lastCell # Null
    /\ ~game.thrown
    /\ Len(mazePath.path) >= 5
    /\ isComplete(mazePath).ret
    /\ \E pos \in Cells(rows, columns) : ~board[pos]

\* C34: in a game instance, after any sequence of mouse events the path of
\* the game is not empty and its cell at position 0 is the cell (0, 0) of
\* the maze: handleMouseDrag never removes the cell at position 0, and no
\* mouse event throws.
C34_PathStartsAtOrigin ==
    (game.instance /\ game.listening)
        => /\ Len(mazePath.path) >= 1
           /\ mazePath.path[1] = BoardCell(<<0, 0>>)
           /\ getPosition(mazePath, BoardCell(<<0, 0>>)) = 0
           /\ (game.lastEvent = "mousemove" => ~game.thrown)

\* the mouse was dragged back onto the cell (0, 0) from a path of three or
\* more cells, which left that cell alone on the path
C34_Witness ==
    /\ game.instance
    /\ game.lastEvent = "mousemove"
    /\ game.isUserMouseDown
    /\ ~game.isMazeSolved
    /\ game.lastCell = BoardCell(<<0, 0>>)
    /\ game.lengthBefore >= 3
    /\ Len(mazePath.path) = 1

\* C35: a mouse-drag event sets the solved flag of the game only in a state
\* where the path starts at (0, 0), ends at (rows-1, columns-1) and consists
\* of open cells of which each is next to the one before it; a drag does not
\* set the flag while the path ends before the bottom-right cell.
C35_DragSolvesOnlyCompletePath ==
    /\ (game.instance /\ game.completedByUser)
          => /\ game.isMazeSolved
             /\ Len(mazePath.path) >= 1
             /\ mazePath.path[1] = BoardCell(<<0, 0>>)
             /\ mazePath.path[Len(mazePath.path)]
                   = BoardCell(<<rows - 1, columns - 1>>)
             /\ \A i \in 1..Len(mazePath.path) :
                   board[mazePath.path[i].pos]
             /\ \A i \in 1..(Len(mazePath.path) - 1) :
                   Adjacent(mazePath.path[i].pos, mazePath.path[i + 1].pos)
    /\ (game.instance /\ game.isMazeSolved /\ ~game.solveMazeRan)
          => game.completedByUser

\* the drag reached the bottom-right cell of a maze of three rows and three
\* columns and the game reported the maze solved
C35_Witness ==
    /\ game.instance
    /\ game.completedByUser
    /\ ~game.solveMazeRan
    /\ game.lastEvent = "mousemove"
    /\ game.lastCell = BoardCell(<<rows - 1, columns - 1>>)
    /\ rows = 3
    /\ columns = 3
    /\ game.lengthBefore = Len(mazePath.path) - 1
    /\ Len(mazePath.path) >= 5

---------------------------------------------------------------------------
(* Claims about single mouse-drag events, checked under SpecGameReceived,  *)
(* where the open cells may lie around a closed one and a cell off the     *)
(* path can have several neighbours on it.                                 *)

\* the positions on the path of the neighbours of a cell
NeighbourPositions(mp, cell) ==
    {getPosition(mp, getNeighbours(cell)[i]) :
        i \in 1..Len(getNeighbours(cell))} \ {-1}

Least(S) == CHOOSE x \in S : \A y \in S : x <= y

Reverse(seq) == [i \in 1..Len(seq) |-> seq[Len(seq) + 1 - i]]

\* the path after the body of handleMouseDrag with the neighbours scanned in
\* the opposite order
PathScannedBackwards(mp, cellToAdd) ==
    add(removeAfterNeighbours(Reverse(getNeighbours(cellToAdd)), cellToAdd,
                              [mp |-> mp, thrown |-> FALSE]).mp,
        cellToAdd)

\* C36: a mouse-drag event with the button down and the maze unsolved, on
\* an open cell that is not on the path and has a neighbour on it, leaves
\* the old path up to and including the neighbour with the smallest
\* position, followed by the cell under the mouse as the last cell; the
\* scan of the neighbours in the opposite order leaves the same path.
C36_DragOntoNewCell ==
    [][(/\ game'.lastEvent = "mousemove"
        /\ game.isUserMouseDown
        /\ ~game.isMazeSolved
        /\ game'.lastCell # Null
        /\ isOpen(game'.lastCell)
        /\ game'.positionBefore = -1
        /\ NeighbourPositions(mazePath, game'.lastCell) # {})
          => /\ mazePath'.path =
                   Append(SubSeq(mazePath.path, 1,
                                 Least(NeighbourPositions(
                                           mazePath, game'.lastCell)) + 1),
                          game'.lastCell)
             /\ mazePath' = PathScannedBackwards(mazePath, game'.lastCell)
             /\ ~game'.thrown]_vars

\* the mouse was dragged onto an open cell off the path; two or more cells
\* were cut off the path and the cell became its last cell, next to a cell
\* that is no longer on the path
C36_Witness ==
    /\ game.instance
    /\ game.lastEvent = "mousemove"
    /\ game.isUserMouseDown
    /\ game.lastCell # Null
    /\ isOpen(game.lastCell)
    /\ game.positionBefore = -1
    /\ Len(mazePath.path) >= 2
    /\ mazePath.path[Len(mazePath.path)] = game.lastCell
    /\ game.lengthBefore >= Len(mazePath.path) + 1
    /\ \E i \in 1..Len(getNeighbours(game.lastCell)) :
          /\ isOpen(getNeighbours(game.lastCell)[i])
          /\ getPosition(mazePath, getNeighbours(game.lastCell)[i]) = -1

\* C37: a mouse-drag event with the button down and the maze unsolved, on
\* a cell that is on the path at position p, cuts the path to length p + 1
\* so that the cell is its last cell; a drag on a closed cell, outside the
\* grid, with the button up, or on an open cell with no neighbour on the
\* path leaves the path as it was.
C37_DragTruncatesOrKeeps ==
    [][game'.lastEvent = "mousemove"
          => IF ~game.isUserMouseDown
             THEN mazePath' = mazePath
             ELSE ~game.isMazeSolved
                    => IF game'.lastCell = Null
                       THEN mazePath' = mazePath
                       ELSE IF ~isOpen(game'.lastCell)
                       THEN mazePath' = mazePath
                       ELSE IF game'.positionBefore # -1
                       THEN /\ mazePath'.path =
                                  SubSeq(mazePath.path, 1,
                                         game'.positionBefore + 1)
                            /\ mazePath'.path[Len(mazePath'.path)] =
                                  game'.lastCell
                            /\ ~game'.thrown
                       ELSE NeighbourPositions(mazePath, game'.lastCell) = {}
                              => mazePath' = mazePath]_vars

\* the mouse was dragged, with the button down, onto a cell in the middle
\* of the path, which is now the last cell of a shorter path
C37_Witness ==
    /\ game.instance
    /\ game.lastEvent = "mousemove"
    /\ game.isUserMouseDown
    /\ ~game.isMazeSolved
    /\ game.lastCell # Null
    /\ game.positionBefore >= 1
    /\ game.lengthBefore > game.positionBefore + 1
    /\ Len(mazePath.path) = game.positionBefore + 1
    /\ mazePath.path[Len(mazePath.path)] = game.lastCell

---------------------------------------------------------------------------
(* Further claims about the priority queue, checked under SpecPQ, and      *)
(* about the generation loop, checked under SpecMaze.                      *)

\* the heap array holds _size elements and no undefined slot
NoHoles(q) ==
    /\ q._size = Len(q.heap)
    /\ \A i \in 1..Len(q.heap) : q.heap[i] # Undefined

\* each element's priority is at most the priorities of its children at
\* the indices 2i+1 and 2i+2
HeapOrdered(q) ==
    \A i \in 0..(q._size - 1) :
        /\ leftChild(i) < q._size =>
              getPriority(HeapGet(q, i))
                  <= getPriority(HeapGet(q, leftChild(i)))
        /\ rightChild(i) < q._size =>
              getPriority(HeapGet(q, i))
                  <= getPriority(HeapGet(q, rightChild(i)))

\* C29: after every insert and after every removeMin on a non-empty queue
\* the heap array is in min-heap order: each element's priority is at most
\* the priorities of its children.
C29_HeapOrderAfterEveryCall ==
    (/\ lastCall.op \in {"insert", "removeMin"}
     /\ ~lastCall.thrown
     /\ (lastCall.op = "removeMin" => lastCall.sizeBefore > 0)
     /\ NoHoles(pq))
        => HeapOrdered(pq)

\* the wall the next iteration of the generation loop removes
NextWall == getData(removeMin(pq).ret)

\* the neighbours of a cell that are open and not visited
OpenUnvisited(cell) ==
    {n \in Cells(rows, columns) :
        /\ \E i \in 1..Len(neighbours(rows, columns, cell)) :
              neighbours(rows, columns, cell)[i] = n
        /\ board[n]
        /\ ~visited[n]}

\* C30: whenever the generation loop removes a wall from the priority
\* queue, at most one neighbour of the wall is open and unvisited, so the
\* scan of the neighbours in the opposite order finds the same nextCell.
C30_AtMostOneOpenUnvisitedNeighbour ==
    (pc = "loop" /\ size(pq) # 0)
        => /\ Cardinality(OpenUnvisited(NextWall)) <= 1
           /\ firstUnvisitedOpen(neighbours(rows, columns, NextWall),
                                 board, visited)
                 = firstUnvisitedOpen(
                       Reverse(neighbours(rows, columns, NextWall)),
                       board, visited)

\* the loop is about to remove a wall between a visited cell and an open
\* cell that is not visited
C30_Witness ==
    /\ pc = "loop"
    /\ size(pq) # 0
    /\ Cardinality(OpenUnvisited(NextWall)) = 1
    /\ \E i \in 1..Len(neighbours(rows, columns, NextWall)) :
          /\ board[neighbours(rows, columns, NextWall)[i]]
          /\ visited[neighbours(rows, columns, NextWall)[i]]
    /\ \E c \in Cells(rows, columns) : c # <<0, 0>> /\ visited[c]

---------------------------------------------------------------------------
(* Claims about the maze on its way to the page, checked under SpecFetch. *)

\* a cell whose row or column is not a non-negative integer, or whose open
\* is not a boolean
MalformedCell(c) ==
    \/ ~(IsInteger(c.row) /\ toInteger(c.row) >= 0)
    \/ ~(IsInteger(c.column) /\ toInteger(c.column) >= 0)
    \/ c.open.type # "boolean"

Malformed(data) == \E pos \in DOMAIN data.board : MalformedCell(data.board[pos])

\* C25: a response whose body has a malformed cell (row or column not a
\* non-negative integer, or open not a boolean) is rejected by the page
\* with an error, and no game with a maze made of it is on the page.
C25_MalformedPayloadIsRejected ==
    (response.state = "handled" /\ Malformed(parseMaze(response.body)))
        => (response.thrown /\ ~game.listening)

---------------------------------------------------------------------------
(* Claims about the Queue, checked under SpecQueue. *)

\* C27: for any interleaving of push and pop, each pop that returns gives
\* the oldest element pushed and not yet popped, also when the array was
\* cut, and size() is the number of pushes minus the number of pops that
\* returned.
C27_QueueIsFifo ==
    /\ (fifo.last.op = "pop" /\ ~fifo.last.thrown)
          => fifo.last.ret = fifo.last.expected
    /\ queueSize(fifo.q) = fifo.pushes - fifo.pops
    /\ queueSize(fifo.q) = Len(fifo.pending)

\* a pop that returned after the array had been cut with elements left in
\* it, and with elements pushed since
C27_Witness ==
    /\ fifo.last.op = "pop"
    /\ ~fifo.last.thrown
    /\ fifo.pops >= 3
    /\ fifo.pushes >= 5
    /\ fifo.q.exit = 0
    /\ Len(fifo.q._arr) >= 2
    /\ \E i, j \in 1..Len(fifo.pending) : fifo.pending[i] # fifo.pending[j]

---------------------------------------------------------------------------
(* Claims about generateWeights, checked under SpecWeights. *)

\* C31: generateWeights returns a table that holds each integer of
\* 0..rows*columns-1 exactly once, for every sequence of random draws in
\* which the draw of step i lies in 0..i.
C31_WeightsArePermutation ==
    pc = "weights"
        => /\ DOMAIN weights = Cells(rows, columns)
           /\ \A k \in 0..(rows * columns - 1) :
                  Cardinality({cell \in Cells(rows, columns) :
                                  weights[cell] = k}) = 1

\* a table of two rows and three columns in which no cell kept the weight
\* it started with
C31_Witness ==
    /\ pc = "weights"
    /\ rows = 2
    /\ columns = 3
    /\ \A cell \in Cells(rows, columns) :
          weights[cell] # LinearIndex(columns, cell)

---------------------------------------------------------------------------
(* Further claims about MazePath, checked under SpecPath. *)

\* C32: after any sequence of add and remove calls the position index
\* agrees with the sequence: cellPositions of cell (r, c) is i exactly when
\* the cell at position i of the path is (r, c), and is -1 for every cell
\* that is not on the path.
C32_IndexAgreesWithPath ==
    mazePath # NoPath =>
        /\ DOMAIN mazePath.cellPositions = Cells(rows, columns)
        /\ \A pos \in Cells(rows, columns) :
              /\ \A i \in 0..(Len(mazePath.path) - 1) :
                    (mazePath.cellPositions[pos] = i)
                        <=> (mazePath.path[i + 1].pos = pos)
              /\ (\A i \in 1..Len(mazePath.path) :
                      mazePath.path[i].pos # pos)
                    => mazePath.cellPositions[pos] = -1

\* remove has cut two or more cells off a path and left two or more
C32_Witness ==
    /\ lastPathCall.op = "remove"
    /\ ~lastPathCall.thrown
    /\ Len(mazePath.path) >= 2
    /\ lastPathCall.lengthBefore >= Len(mazePath.path) + 2
    /\ mazePath.cellPositions[lastPathCall.cell.pos] = -1
    /\ mazePath.cellPositions[mazePath.path[2].pos] = 1

\* C33: remove(cell) for the cell at position 0 returns without an error
\* and leaves an empty path whose position index is -1 everywhere.
C33_RemoveAtZeroReturns ==
    (lastPathCall.op = "remove" /\ lastPathCall.lengthBefore >= 1
        /\ lastPathCall.cell.maze = ThisMaze
        /\ Len(mazePath.path) = 0)
        => /\ ~lastPathCall.thrown
           /\ \A pos \in Cells(rows, columns) :
                  mazePath.cellPositions[pos] = -1

---------------------------------------------------------------------------
(* Claims about the cells that generation opens, checked under SpecMaze.   *)

\* the cells that initBoard leaves open
SkeletonOpen(cell) == initBoard(rows, columns)[cell]

\* the cell lies between two cells that initBoard leaves open, above and
\* below it or left and right of it
BetweenSkeletonOpen(cell) ==
    \E d \in {<<1, 0>>, <<0, 1>>} :
       /\ <<cell[1] - d[1], cell[2] - d[2]>> \in Cells(rows, columns)
       /\ <<cell[1] + d[1], cell[2] + d[2]>> \in Cells(rows, columns)
       /\ SkeletonOpen(<<cell[1] - d[1], cell[2] - d[2]>>)
       /\ SkeletonOpen(<<cell[1] + d[1], cell[2] + d[2]>>)

OddOdd(cell) == ~Even(cell[1]) /\ ~Even(cell[2])

Enqueued(cell) ==
    \E i \in 1..Len(pq.heap) : getData(pq.heap[i]) = cell

\* C38: from initBoard to the end of generation every cell that initBoard
\* left open is open, every other open cell lies between two cells that
\* initBoard left open, and a cell in an odd row and an odd column that
\* initBoard left closed is closed and is not in the priority queue.
C38_OnlyWallsBetweenOpenCells ==
    pc \in {"built", "loop", "done"}
      => \A cell \in Cells(rows, columns) :
            /\ SkeletonOpen(cell) => board[cell]
            /\ (board[cell] /\ ~SkeletonOpen(cell))
                  => BetweenSkeletonOpen(cell)
            /\ (OddOdd(cell) /\ ~SkeletonOpen(cell))
                  => (~board[cell] /\ ~Enqueued(cell))

\* generation has finished and opened a wall next to a cell in an odd row
\* and an odd column, which is still closed
C38_Witness ==
    /\ pc = "done"
    /\ \E cell \in Cells(rows, columns), wall \in Cells(rows, columns) :
          /\ OddOdd(cell)
          /\ ~SkeletonOpen(cell)
          /\ ~board[cell]
          /\ Adjacent(cell, wall)
          /\ ~SkeletonOpen(wall)
          /\ board[wall]

---------------------------------------------------------------------------
(* Claims about generation without the extra openings, checked under       *)
(* SpecPlainMaze.                                                          *)

OpenCells == {cell \in Cells(rows, columns) : board[cell]}

\* the pairs of adjacent open cells, each pair once
OpenPairs ==
    {p \in OpenCells \X OpenCells :
        \/ (p[2][1] = p[1][1] + 1 /\ p[2][2] = p[1][2])
        \/ (p[2][1] = p[1][1] /\ p[2][2] = p[1][2] + 1)}

\* C39: when rows and columns are both odd and no iteration of the loop
\* takes the 3% branch, the open cells of the generated maze form a tree:
\* every open cell is joined to (0,0) by a chain of adjacent open cells and
\* the pairs of adjacent open cells are one fewer than the open cells, so
\* that exactly one simple chain joins any two open cells, for every order
\* of the weights of the walls.
C39_OpenCellsFormTree ==
    (pc = "done" /\ ~Even(rows) /\ ~Even(columns))
      => /\ OpenReach(board, {<<0, 0>>}) = OpenCells
         /\ Cardinality(OpenPairs) = Cardinality(OpenCells) - 1

\* a generated maze with odd rows and columns in which a wall between two
\* open cells stayed closed
C39_Witness ==
    /\ pc = "done"
    /\ ~Even(rows)
    /\ ~Even(columns)
    /\ rows >= 3
    /\ columns >= 3
    /\ \E wall \in Cells(rows, columns) :
          /\ ~board[wall]
          /\ BetweenSkeletonOpen(wall)

=============================================================================
